---- MODULE Spec2Model ----
(***************************************************************************)
(* A model of the chat-analysis pipeline of analyze_chats.py: the          *)
(* RateLimiter (a fixed 60 second window counter behind a lock), the       *)
(* per-file worker process_single_file, and the dispatcher loop of main    *)
(* (sequential for a dry run, a thread pool otherwise).                    *)
(*                                                                         *)
(* Time is an integer number of seconds. JSON values are tagged records    *)
(* (see Null, L, S, B, N below), so that a null, a list and a string stay  *)
(* different values, as they are in the program.                           *)
(***************************************************************************)
EXTENDS Integers, Sequences, FiniteSets, TLC

\* ------------------------------------------------------------------ bounds
\* The number of threads that call the rate limiter under SpecLimiter.
MaxThreads == 3
\* The number of input files of a run of main (each file's task is a thread).
NumFiles == 2
\* The largest max_requests_per_minute a limiter is constructed with under
\* SpecLimiter.
MaxRate == 2
\* The max_requests_per_minute main constructs its limiter with: it passes
\* REQUESTS_PER_MINUTE (500), and the model takes a value that NumFiles
\* requests reach.
RunRate == 1
\* Calls of wait_if_needed made by each thread under SpecLimiter.
MaxCalls == 2
\* Under SpecLimiter the clock advances in steps of TickStep seconds, at most
\* MaxTicks times; during a run of main it advances by a whole window, at
\* most RunTicks times.
TickStep == 20
MaxTicks == 6
RunTicks == 1
\* The longest record list the aggregation is given under SpecAggregate.
MaxRecords == 3
\* The most raw problem labels of a raw mapping under SpecMapping.
MaxLabels == 2
\* How many times in a row a label is put through consolidate_similar_features
\* under SpecLabels.
MaxApplications == 2

\* --------------------------------------------------------------- constants
\* The window length of `current_time - self.minute_start >= 60.0`.
Window == 60
\* MAX_WORKERS, the size of the thread pool.
MAX_WORKERS == 10

Threads == 1..(IF MaxThreads > NumFiles THEN MaxThreads ELSE NumFiles)
Files == 1..NumFiles
\* The value of `lock` when threading.Lock() is not held.
NoThread == 0

VARIABLES
    \* RateLimiter fields
    max_requests, request_count, minute_start, lock,
    \* time.time()
    clock,
    \* per thread: position, and the time its sleep ends while it sleeps
    pc, wake_at,
    \* history: calls made per thread, the times at which wait_if_needed
    \* returned (those of the last Window seconds)
    calls, returns,
    \* main: the dry_run argument, per_chat, errs, completed, the sequential
    \* loop's index, the futures as_completed has yielded, and whether an
    \* exception has left the loop
    dry_run, per_chat, errs, completed, seq_i, collected, crashed,
    \* per file: what reading it gives, what its LLM call gave, and the
    \* result its task returned (the future's value)
    content, llm, future,
    \* history: for each entry of per_chat the input file it was appended
    \* for; per file the limiter acquisitions and the requests sent
    origin, acqs, reqs,
    \* main after the loop: the rows of summary.csv, the counters, and how far
    \* the aggregation has come
    rows, counters, agg,
    \* create_consolidated_mapping: its argument, its locals
    \* problem_candidates and csv_assignment, the mapping it builds, and its
    \* position
    raw_mapping, problem_candidates, csv_assignment, consolidated_mapping,
    map_pc,
    \* a label, the module whose consolidate_similar_features it is given to,
    \* and what the function returned, each time for what it returned before
    raw_label, label_src, canonical

limiterVars == <<max_requests, request_count, minute_start, lock>>
threadVars == <<pc, wake_at>>
histVars == <<calls, returns>>
aggVars == <<rows, counters, agg>>
mapVars == <<raw_mapping, problem_candidates, csv_assignment,
             consolidated_mapping, map_pc>>
runVars == <<dry_run, per_chat, errs, completed, seq_i, collected, crashed,
             content, llm, future, origin, acqs, reqs>>
labelVars == <<raw_label, label_src, canonical>>
mainVars == <<runVars, aggVars, mapVars, labelVars>>
vars == <<limiterVars, clock, threadVars, histVars, mainVars>>

\* ------------------------------------------------------------ RateLimiter

\* `current_time - self.minute_start >= 60.0`
WindowElapsedStrict(cur, ms) == cur - ms > Window
WindowElapsed(cur, ms) == cur - ms >= Window

\* `wait_time = 60.0 - (current_time - self.minute_start)`
WaitTimeZero(cur, ms) == 0
WaitTimeFixed(cur, ms) == Window
WaitTime(cur, ms) == Window - (cur - ms)

\* `with self.lock:` can be entered when no thread holds the lock.
LockFreeAlways == TRUE
LockFree == lock = NoThread

\* The states of a thread between acquiring and releasing the lock.
InCS == {"locked", "sleeping", "incr"}

\* RateLimiter.__init__
LimiterInit(m) ==
    /\ max_requests = m
    /\ request_count = 0
    /\ minute_start = clock
    /\ lock = NoThread

\* `with self.lock:` -- the thread blocks until the lock is free.
LockAcquire(t) ==
    /\ pc[t] = "want_lock"
    /\ LockFree
    /\ lock' = t
    /\ pc' = [pc EXCEPT ![t] = "locked"]
    /\ UNCHANGED <<max_requests, request_count, minute_start, clock,
                   wake_at, histVars, mainVars>>

\* Under the lock: read the clock, reset the window when a minute has
\* passed, then test the limit; at the limit, with a positive wait_time, the
\* thread starts to sleep (still holding the lock).
CheckWindow(t) ==
    /\ pc[t] = "locked"
    /\ LET cur == clock
           reset == WindowElapsed(cur, minute_start)
           cnt == IF reset THEN 0 ELSE request_count
           ms == IF reset THEN cur ELSE minute_start
           wait_time == WaitTime(cur, ms)
       IN /\ request_count' = cnt
          /\ minute_start' = ms
          /\ IF cnt >= max_requests /\ wait_time > 0
                THEN /\ pc' = [pc EXCEPT ![t] = "sleeping"]
                     /\ wake_at' = [wake_at EXCEPT ![t] = clock + wait_time]
                ELSE /\ pc' = [pc EXCEPT ![t] = "incr"]
                     /\ UNCHANGED wake_at
    /\ UNCHANGED <<max_requests, lock, clock, histVars, mainVars>>

\* time.sleep(wait_time) has returned (it sleeps at least wait_time); the
\* window is reset to the time read after the sleep.
WakeNoReset(t) ==
    /\ pc[t] = "sleeping"
    /\ clock >= wake_at[t]
    /\ pc' = [pc EXCEPT ![t] = "incr"]
    /\ wake_at' = [wake_at EXCEPT ![t] = 0]
    /\ UNCHANGED <<limiterVars, clock, histVars, mainVars>>
Wake(t) ==
    /\ pc[t] = "sleeping"
    /\ clock >= wake_at[t]
    /\ request_count' = 0
    /\ minute_start' = clock
    /\ pc' = [pc EXCEPT ![t] = "incr"]
    /\ wake_at' = [wake_at EXCEPT ![t] = 0]
    /\ UNCHANGED <<max_requests, lock, clock, histVars, mainVars>>

\* `self.request_count += 1`, then the with block releases the lock and
\* wait_if_needed returns.
IncrementKeepLock(t) ==
    /\ pc[t] = "incr"
    /\ request_count' = request_count + 1
    /\ pc' = [pc EXCEPT ![t] = "returned"]
    /\ returns' = Append(returns, clock)
    /\ acqs' = [acqs EXCEPT ![t] = @ + 1]
    /\ UNCHANGED <<max_requests, minute_start, lock, clock, wake_at,
                   calls, dry_run, per_chat, errs, completed, seq_i,
                   collected, content, llm, future, origin, reqs, crashed,
                   aggVars, mapVars, labelVars>>
Increment(t) ==
    /\ pc[t] = "incr"
    /\ request_count' = request_count + 1
    /\ lock' = NoThread
    /\ pc' = [pc EXCEPT ![t] = "returned"]
    /\ returns' = Append(returns, clock)
    /\ acqs' = [acqs EXCEPT ![t] = @ + 1]
    /\ UNCHANGED <<max_requests, minute_start, clock, wake_at,
                   calls, dry_run, per_chat, errs, completed, seq_i,
                   collected, content, llm, future, origin, reqs, crashed,
                   aggVars, mapVars,
                   labelVars>>

\* Time passes. The program reads the clock inside wait_if_needed only, so
\* the model lets it advance while some thread is inside wait_if_needed or
\* about to enter it: time that passes at another moment shows as a later
\* reading of the next thread to enter. Return times older than one window
\* are dropped from the history: no later interval of Window seconds
\* contains them.
InWaitIfNeeded == {"want_lock", "locked", "sleeping", "incr"}
Tick(step, maxTicks) ==
    /\ \E t \in Threads : pc[t] \in InWaitIfNeeded
    /\ clock + step <= maxTicks * step
    /\ clock' = clock + step
    /\ returns' = SelectSeq(returns, LAMBDA r : r > clock' - Window)
    /\ UNCHANGED <<limiterVars, threadVars, calls, mainVars>>

\* ------------------------------------------------------------ JSON values
\* A JSON value (a Python object after json.loads) carries its type.
Null == [kind |-> "null"]
L(items) == [kind |-> "list", items |-> items]
S(str) == [kind |-> "str", s |-> str]
B(bool) == [kind |-> "bool", b |-> bool]
N(num) == [kind |-> "num", n |-> num]
\* A JSON object is a function from its keys to JSON values.
Obj(o) == [kind |-> "obj", o |-> o]

\* dict.get(key, default)
Get(r, key, default) == IF key \in DOMAIN r THEN r[key] ELSE default

\* `x in v` raises TypeError unless v is a container. (The responses of the
\* model carry no string or object where a list is expected.)
IsContainer(v) == v.kind = "list"
Contains(v, x) == \E i \in DOMAIN v.items : v.items[i] = S(x)

\* f"{prefix}: {type(e).__name__}"
FormatException(prefix, name) ==
    CASE prefix = "exception" /\ name = "Timeout" -> "exception: Timeout"
      [] prefix = "exception" /\ name = "ConnectionError" -> "exception: ConnectionError"
      [] prefix = "exception" /\ name = "HTTPError" -> "exception: HTTPError"
      [] prefix = "exception" /\ name = "JSONDecodeError" -> "exception: JSONDecodeError"
      [] prefix = "exception" /\ name = "TypeError" -> "exception: TypeError"
      [] prefix = "file-error" /\ name = "EmptyDataError" -> "file-error: EmptyDataError"
      [] prefix = "processing-error" /\ name = "TypeError" -> "processing-error: TypeError"

\* ------------------------------------------------------------- input files
\* csv_files: the paths the glob matched, and os.path.basename of each.
FileNames == <<"a.csv", "b.csv", "c.csv", "d.csv">>
Path(f) == [dir |-> "chats", name |-> FileNames[f]]
Basename(path) == path.name

\* Text is a sequence of characters, so that lower(), strip() and the
\* substring test `in` are computed as the program computes them.
LowerChar(ch) ==
    CASE ch = "A" -> "a" [] ch = "B" -> "b" [] ch = "C" -> "c"
      [] ch = "D" -> "d" [] ch = "E" -> "e" [] ch = "F" -> "f"
      [] ch = "G" -> "g" [] ch = "H" -> "h" [] ch = "I" -> "i"
      [] ch = "J" -> "j" [] ch = "K" -> "k" [] ch = "L" -> "l"
      [] ch = "M" -> "m" [] ch = "N" -> "n" [] ch = "O" -> "o"
      [] ch = "P" -> "p" [] ch = "Q" -> "q" [] ch = "R" -> "r"
      [] ch = "S" -> "s" [] ch = "T" -> "t" [] ch = "U" -> "u"
      [] ch = "V" -> "v" [] ch = "W" -> "w" [] ch = "X" -> "x"
      [] ch = "Y" -> "y" [] ch = "Z" -> "z"
      [] OTHER -> ch
\* str.lower()
Lower(s) == [i \in DOMAIN s |-> LowerChar(s[i])]
\* str.strip()
RECURSIVE Strip(_)
Strip(s) ==
    IF s = <<>> THEN s
    ELSE IF Head(s) = " " THEN Strip(Tail(s))
    ELSE IF s[Len(s)] = " " THEN Strip(SubSeq(s, 1, Len(s) - 1))
    ELSE s
\* `p in s` for two strings
IsSubstring(p, s) ==
    \E i \in 0..(Len(s) - Len(p)) : SubSeq(s, i + 1, i + Len(p)) = p

\* normalize_sender: the speaker tag of a row's `sender type` value.
normalize_sender(v) ==
    LET w == Lower(Strip(v))
    IN IF w \in { <<"w","e","b">>, <<"u","s","e","r">>,
                  <<"c","u","s","t","o","m","e","r">>,
                  <<"c","l","i","e","n","t">> }
          THEN <<"u","s","e","r">>
       ELSE IF w \in { <<"b","o","t">>, <<"a","s","s","i","s","t","a","n","t">>,
                       <<"a","g","e","n","t">>, <<"s","y","s","t","e","m">> }
          THEN <<"b","o","t">>
       ELSE IF w # <<>> THEN w ELSE <<"u","s","e","r">>

\* A row of the CSV by its `sender type` and `message` cells, and a line of
\* the transcript by its speaker tag and message.
Row(sender, msg) == [sender |-> sender, msg |-> msg]
Line(spk, msg) == [spk |-> spk, msg |-> msg]
\* f"[{t}] {spk}: {msg}"
LineText(line) == <<"[", "9", "]", " ">> \o line.spk \o <<":", " ">> \o line.msg

\* csv_to_transcript: one line per row that has a message, in row order.
RECURSIVE csv_to_transcript(_)
csv_to_transcript(csv_rows) ==
    IF csv_rows = <<>> THEN <<>>
    ELSE IF Head(csv_rows).msg = <<>> THEN csv_to_transcript(Tail(csv_rows))
    ELSE <<Line(normalize_sender(Head(csv_rows).sender), Head(csv_rows).msg)>>
            \o csv_to_transcript(Tail(csv_rows))

\* What reading a file gives: pd.read_csv raises, or csv_to_transcript
\* returns a transcript (a sequence of lines).
Unreadable == [kind |-> "unreadable", exc |-> "EmptyDataError"]
Transcript(lines) == [kind |-> "transcript", lines |-> lines]
NotRead == [kind |-> "notread"]
\* The files a run can meet: one that cannot be read; one whose only row has
\* no message; a bot greeting alone; a bot message that quotes "user:"; a
\* greeting and a row of sender type "Visitor"; a greeting and one user
\* message; a conversation with three user messages.
Contents ==
    { Unreadable,
      Transcript(csv_to_transcript(<<Row(<<"b","o","t">>, <<>>)>>)),
      Transcript(csv_to_transcript(<<Row(<<"B","o","t">>, <<"H","i">>)>>)),
      Transcript(csv_to_transcript(
          <<Row(<<"b","o","t">>, <<"U","s","e","r",":"," ","?">>)>>)),
      Transcript(csv_to_transcript(
          <<Row(<<"b","o","t">>, <<"H","i">>),
            Row(<<"V","i","s","i","t","o","r">>, <<"h","i">>)>>)),
      Transcript(csv_to_transcript(
          <<Row(<<"b","o","t">>, <<"H","i">>),
            Row(<<"W","e","b">>, <<"h","i">>)>>)),
      Transcript(csv_to_transcript(
          <<Row(<<"W","e","b">>, <<"p","a","y">>),
            Row(<<"b","o","t">>, <<"h","o","w">>),
            Row(<<" ","U","s","e","r">>, <<"c","a","r","d">>),
            Row(<<"b","o","t">>, <<"o","k">>),
            Row(<<"c","l","i","e","n","t">>, <<"t","h","x">>)>>)) }

\* `'user:' in line.lower()` for the line "[t] spk: msg" (`and line.strip()`
\* holds for every line csv_to_transcript builds).
HasUserTag(line) ==
    IsSubstring(<<"u","s","e","r",":">>, Lower(LineText(line)))

\* `not transcript.strip()`: the lines joined by "\n" are blank (every line
\* csv_to_transcript builds is non-blank, so that is the empty transcript).
IsBlank(lines) == Len(lines) = 0

\* is_incomplete_conversation
UserLines(lines) == {i \in DOMAIN lines : HasUserTag(lines[i])}
is_incomplete_conversation(lines) == Cardinality(UserLines(lines)) = 0

\* ----------------------------------------------------- process_single_file
\* The fields every stub below ends with.
NeutralTail ==
    [ success_patterns |-> L(<<>>), demonstrated_skills |-> L(<<>>),
      user_satisfaction_indicators |-> L(<<>>), conversation_flow |-> L(<<>>),
      escalation_triggers |-> L(<<>>), error_patterns |-> L(<<>>),
      user_emotion |-> S("neutral"), conversation_complexity |-> S("simple"),
      feature_priority_score |-> N(1), improvement_effort |-> S("low") ]

EmptyStub(base) ==
    [ file |-> S(base), topics |-> L(<<S("empty-transcript")>>),
      user_tasks_attempted |-> L(<<>>), solved |-> B(FALSE),
      why_unsolved |-> L(<<S("empty-transcript")>>), needs_human |-> B(FALSE),
      capabilities |-> L(<<>>), examples |-> L(<<>>),
      failure_category |-> S("other"),
      missing_feature |-> S("no-missing-feature-empty-transcript"),
      feature_category |-> S("no-feature-category-empty-transcript"),
      specific_improvement_needed |-> S("no-improvement-needed-empty-transcript") ]
    @@ NeutralTail

IncompleteStub(base) ==
    [ file |-> S(base), topics |-> L(<<S("incomplete-conversation")>>),
      user_tasks_attempted |-> L(<<S("no-user-request")>>), solved |-> B(TRUE),
      why_unsolved |-> L(<<S("no-user-request-to-solve")>>),
      needs_human |-> B(FALSE),
      capabilities |-> L(<<S("greeting"), S("form-presentation")>>),
      limitations |-> L(<<>>), examples |-> L(<<>>),
      failure_category |-> S("incomplete-conversation"),
      missing_feature |-> S("no-missing-feature-incomplete-conversation"),
      feature_category |-> S("no-feature-category-incomplete-conversation"),
      specific_improvement_needed |-> S("no-improvement-needed-user-abandoned"),
      success_patterns |->
          L(<<S("bot-greeting-successful"), S("form-presentation-complete")>>),
      demonstrated_skills |->
          L(<<S("greeting"), S("form-presentation"), S("template-rendering")>>),
      user_satisfaction_indicators |->
          L(<<S("conversation-initiated"), S("bot-ready-to-help")>>),
      conversation_flow |->
          L(<<S("bot-greeting"), S("form-presentation"), S("user-abandoned")>>),
      escalation_triggers |->
          L(<<S("user-abandoned-conversation"), S("no-escalation-needed")>>),
      error_patterns |->
          L(<<S("no-errors-detected"), S("conversation-abandoned")>>),
      user_emotion |-> S("neutral"), conversation_complexity |-> S("simple"),
      feature_priority_score |-> N(1), improvement_effort |-> S("low") ]

DryRunStub(base) ==
    [ file |-> S(base), topics |-> L(<<S("unknown")>>),
      user_tasks_attempted |-> L(<<>>), solved |-> B(FALSE),
      why_unsolved |-> L(<<S("dry-run-no-llm")>>), needs_human |-> B(FALSE),
      capabilities |-> L(<<>>), examples |-> L(<<>>),
      failure_category |-> S("other"),
      missing_feature |-> S("no-missing-feature-dry-run"),
      feature_category |-> S("no-feature-category-dry-run"),
      specific_improvement_needed |-> S("no-improvement-needed-dry-run") ]
    @@ NeutralTail

\* The record of the inner `except Exception as e` (a failed LLM call or a
\* response that does not parse).
ParseErrorNoName(base, exc) ==
    [ file |-> S(base), topics |-> L(<<S("parse-error")>>),
      user_tasks_attempted |-> L(<<>>), solved |-> B(FALSE),
      why_unsolved |-> L(<<S("exception")>>),
      needs_human |-> B(FALSE), capabilities |-> L(<<>>),
      limitations |-> L(<<>>), examples |-> L(<<>>),
      failure_category |-> S("other"),
      missing_feature |-> S("no-missing-feature-parse-error"),
      feature_category |-> S("no-feature-category-parse-error"),
      specific_improvement_needed |-> S("no-improvement-needed-parse-error") ]
    @@ NeutralTail
ParseErrorRecord(base, exc) ==
    [ file |-> S(base), topics |-> L(<<S("parse-error")>>),
      user_tasks_attempted |-> L(<<>>), solved |-> B(FALSE),
      why_unsolved |-> L(<<S(FormatException("exception", exc))>>),
      needs_human |-> B(FALSE), capabilities |-> L(<<>>),
      limitations |-> L(<<>>), examples |-> L(<<>>),
      failure_category |-> S("other"),
      missing_feature |-> S("no-missing-feature-parse-error"),
      feature_category |-> S("no-feature-category-parse-error"),
      specific_improvement_needed |-> S("no-improvement-needed-parse-error") ]
    @@ NeutralTail

\* The record of the outer `except Exception as e` (the file cannot be read).
FileErrorRecord(base, exc) ==
    [ file |-> S(base), topics |-> L(<<S("file-error")>>),
      user_tasks_attempted |-> L(<<>>), solved |-> B(FALSE),
      why_unsolved |-> L(<<S(FormatException("file-error", exc))>>),
      needs_human |-> B(FALSE), capabilities |-> L(<<>>), examples |-> L(<<>>),
      failure_category |-> S("other"), missing_feature |-> S("none"),
      feature_category |-> S("none"),
      specific_improvement_needed |-> S("none") ]
    @@ NeutralTail

\* The record main appends in the `except Exception as e` of its loop.
ProcessingErrorRecord(base, exc) ==
    [ file |-> S(base), topics |-> L(<<S("processing-error")>>),
      user_tasks_attempted |-> L(<<>>), solved |-> B(FALSE),
      why_unsolved |-> L(<<S(FormatException("processing-error", exc))>>),
      needs_human |-> B(FALSE), capabilities |-> L(<<>>),
      limitations |-> L(<<>>), examples |-> L(<<>>),
      failure_category |-> S("other"),
      missing_feature |-> S("no-missing-feature-processing-error"),
      feature_category |-> S("no-feature-category-processing-error"),
      specific_improvement_needed |->
          S("no-improvement-needed-processing-error") ]


\* The keys of the schema the prompt asks the model for (USER_PROMPT_TEMPLATE).
SchemaFields ==
    { "topics", "user_tasks_attempted", "solved", "why_unsolved", "needs_human",
      "capabilities", "limitations", "failure_category", "missing_feature",
      "feature_category", "specific_improvement_needed", "examples",
      "success_patterns", "demonstrated_skills", "user_satisfaction_indicators",
      "conversation_flow", "escalation_triggers", "error_patterns",
      "user_emotion", "conversation_complexity", "feature_priority_score",
      "improvement_effort" }

\* ------------------------------------------------------------ LLM responses
\* A response object that follows the schema.
ObjOK ==
    [ topics |-> L(<<S("billing")>>),
      user_tasks_attempted |-> L(<<S("get refund")>>), solved |-> B(FALSE),
      why_unsolved |-> L(<<S("bot lacks refund processing capability")>>),
      needs_human |-> B(TRUE), capabilities |-> L(<<S("policy-explanation")>>),
      limitations |-> L(<<S("cannot process refunds")>>),
      failure_category |-> S("feature-not-supported"),
      missing_feature |-> S("add refund processing API"),
      feature_category |-> S("billing"),
      specific_improvement_needed |-> S("integrate with billing system API"),
      examples |-> L(<<>>), success_patterns |-> L(<<>>),
      demonstrated_skills |-> L(<<S("policy-clarification")>>),
      user_satisfaction_indicators |-> L(<<>>),
      conversation_flow |-> L(<<S("greeting"), S("problem-statement")>>),
      escalation_triggers |-> L(<<S("bot-cannot-access-system")>>),
      error_patterns |-> L(<<S("no-technical-issues")>>),
      user_emotion |-> S("frustrated"), conversation_complexity |-> S("moderate"),
      feature_priority_score |-> N(4), improvement_effort |-> S("medium") ]
\* Valid JSON objects that break the schema: required keys missing; a key
\* the schema does not have and a wrongly typed value; a null where a list
\* is required; a "file" key of the model's own.
ObjMissing == [ topics |-> L(<<S("billing")>>) ]
ObjExtra == [ObjOK EXCEPT !.solved = S("yes")] @@ [ confidence |-> N(1) ]
ObjTopicsNull == [ObjOK EXCEPT !.topics = Null]
ObjFile == [ file |-> S("a.csv") ] @@ ObjOK

\* What chat_complete does: requests.post or raise_for_status raises, or the
\* content string of the response is returned.
Raise(exc) == [kind |-> "raise", exc |-> exc]
Content(text) == [kind |-> "content", text |-> text]
NoOutcome == [kind |-> "none"]
Outcomes ==
    { Raise("Timeout"), Raise("ConnectionError"), Raise("HTTPError"),
      Content("not json"), Content("[]"),
      Content("ok"), Content("missing"), Content("extra"),
      Content("topics null"), Content("file key") }

\* The outcomes a run pairs with a transcript that reaches the call: all of
\* them for a conversation of more than two user lines, a success and a
\* failure for a shorter one (process_single_file handles what comes back in
\* the same way whatever the transcript was).
OutcomesFor(c) ==
    IF Cardinality(UserLines(c.lines)) > 2 THEN Outcomes
    ELSE { Content("ok"), Raise("Timeout") }

\* json.loads(content): a JSONDecodeError, or the parsed value.
IsJson(text) == text # "not json"
JsonLoads(text) ==
    CASE text = "[]" -> L(<<>>)
      [] text = "ok" -> Obj(ObjOK)
      [] text = "missing" -> Obj(ObjMissing)
      [] text = "extra" -> Obj(ObjExtra)
      [] text = "topics null" -> Obj(ObjTopicsNull)
      [] text = "file key" -> Obj(ObjFile)

\* `{"file": base, **obj}`: the keys of obj, and "file" unless obj has it.
Merge(base, o) ==
    [k \in {"file"} \cup DOMAIN o |-> IF k \in DOMAIN o THEN o[k] ELSE S(base)]

\* process_single_file up to the call of chat_complete: whether the file
\* reaches the call, and the record returned when it does not.
ReachesLLMUnfiltered(c, dry) == c.kind = "transcript" /\ ~dry
ReachesLLMAnyMode(c, dry) ==
    /\ c.kind = "transcript"
    /\ ~IsBlank(c.lines)
    /\ ~is_incomplete_conversation(c.lines)
ReachesLLM(c, dry) ==
    /\ c.kind = "transcript"
    /\ ~IsBlank(c.lines)
    /\ ~is_incomplete_conversation(c.lines)
    /\ ~dry
EarlyRecordIncompleteFirst(base, c, dry) ==
    IF c.kind = "unreadable" THEN FileErrorRecord(base, c.exc)
    ELSE IF is_incomplete_conversation(c.lines) THEN IncompleteStub(base)
    ELSE IF IsBlank(c.lines) THEN EmptyStub(base)
    ELSE DryRunStub(base)
EarlyRecord(base, c, dry) ==
    IF c.kind = "unreadable" THEN FileErrorRecord(base, c.exc)
    ELSE IF IsBlank(c.lines) THEN EmptyStub(base)
    ELSE IF is_incomplete_conversation(c.lines) THEN IncompleteStub(base)
    ELSE DryRunStub(base)

\* The exception the inner try block raises, by its class name, or "none":
\* chat_complete raises (requests.post, raise_for_status), json.loads raises
\* on text that is no JSON, `**obj` raises on a value that is no mapping.
RaisedBy(out) ==
    IF out.kind = "raise" THEN out.exc
    ELSE IF ~IsJson(out.text) THEN "JSONDecodeError"
    ELSE IF JsonLoads(out.text).kind # "obj" THEN "TypeError"
    ELSE "none"

\* process_single_file from the call of chat_complete on: the inner try and
\* its `except Exception as e`.
LLMRecord(base, out) ==
    IF RaisedBy(out) # "none" THEN ParseErrorRecord(base, RaisedBy(out))
    ELSE Merge(base, JsonLoads(out.text).o)

\* A task's future: not done, or done with the value process_single_file
\* returned, or done with the exception it raised.
NotDone == [state |-> "pending"]
Returned(r) == [state |-> "returned", result |-> r]
Raised(exc) == [state |-> "raised", exc |-> exc]

\* ------------------------------------------------------------------- main
\* The tasks a pool thread is running.
Running == {f \in Files : pc[f] \notin {"pending", "done"}}

\* A pool thread starts the task of file f: process_single_file reads the
\* file and either returns early or goes on to chat_complete, whose first
\* statement is rate_limiter.wait_if_needed().
StartTask(f) ==
    /\ ~dry_run
    /\ pc[f] = "pending"
    /\ Cardinality(Running) < MAX_WORKERS
    /\ \E c \in Contents :
        /\ content' = [content EXCEPT ![f] = c]
        /\ IF ReachesLLM(c, dry_run)
              THEN /\ pc' = [pc EXCEPT ![f] = "want_lock"]
                   /\ UNCHANGED future
              ELSE /\ pc' = [pc EXCEPT ![f] = "done"]
                   /\ future' = [future EXCEPT ![f] =
                          Returned(EarlyRecord(Basename(Path(f)), c, dry_run))]
    /\ UNCHANGED <<limiterVars, clock, wake_at, histVars, dry_run, per_chat,
                   errs, completed, seq_i, collected, llm, origin, acqs, reqs,
                   crashed, aggVars, mapVars,
                   labelVars>>

\* chat_complete after wait_if_needed: the request is sent, and the rest of
\* process_single_file turns what comes back into the task's result. In the
\* sequential loop the caller is main itself, which appends the result and
\* moves to the next file.
SendRequestRetry(f) ==
    /\ f \in Files
    /\ pc[f] = "returned"
    /\ reqs[f] < 2
    /\ \E out \in OutcomesFor(content[f]) :
        /\ llm' = [llm EXCEPT ![f] = out]
        /\ IF out.kind = "raise"
              THEN /\ pc' = [pc EXCEPT ![f] = "want_lock"]
                   /\ UNCHANGED future
              ELSE /\ pc' = [pc EXCEPT ![f] = "done"]
                   /\ future' = [future EXCEPT ![f] =
                          Returned(LLMRecord(Basename(Path(f)), out))]
    /\ reqs' = [reqs EXCEPT ![f] = @ + 1]
    /\ UNCHANGED <<limiterVars, clock, wake_at, histVars, dry_run, per_chat,
                   origin, seq_i, errs, completed, collected, content, acqs,
                   crashed, aggVars, mapVars,
                   labelVars>>
SendRequest(f) ==
    /\ f \in Files
    /\ pc[f] = "returned"
    /\ \E out \in OutcomesFor(content[f]) :
        /\ llm' = [llm EXCEPT ![f] = out]
        /\ future' = [future EXCEPT ![f] =
                         Returned(LLMRecord(Basename(Path(f)), out))]
    /\ reqs' = [reqs EXCEPT ![f] = @ + 1]
    /\ pc' = [pc EXCEPT ![f] = "done"]
    /\ IF dry_run
          THEN /\ per_chat' = Append(per_chat, future'[f].result)
               /\ origin' = Append(origin, f)
               /\ seq_i' = seq_i + 1
          ELSE UNCHANGED <<per_chat, origin, seq_i>>
    /\ UNCHANGED <<limiterVars, clock, wake_at, histVars, dry_run,
                   errs, completed, collected, content, acqs, crashed,
                   aggVars, mapVars,
                   labelVars>>

\* `"parse-error" in result.get("topics", []) or "file-error" in ...`, for
\* a result whose topics is a container.
IsErrorResult(result) ==
    \/ Contains(Get(result, "topics", L(<<>>)), "parse-error")
    \/ Contains(Get(result, "topics", L(<<>>)), "file-error")

\* Whether the try block of main's loop raises for a done future: by
\* future.result() when the task raised, or, after the result is appended,
\* by the `in` test when the result's topics is no container (a TypeError).
ResultRaises(fut) == fut.state = "raised"
TopicsTestRaises(fut) ==
    /\ fut.state = "returned"
    /\ ~IsContainer(Get(fut.result, "topics", L(<<>>)))
TryRaises(fut) == ResultRaises(fut) \/ TopicsTestRaises(fut)
RaisedClass(fut) == IF ResultRaises(fut) THEN fut.exc ELSE "TypeError"

\* per_chat after the try block: `per_chat.append(result)` is its second
\* statement, so it has run unless future.result() raised.
AfterTry(chat, fut) ==
    IF ResultRaises(fut) THEN chat ELSE Append(chat, fut.result)
OriginAfterTry(orig, fut, f) ==
    IF ResultRaises(fut) THEN orig ELSE Append(orig, f)

\* One iteration of `for future in as_completed(future_to_path)`: the try
\* block, and the `except Exception as e` branch when it raises, which counts
\* an error and appends a processing-error record.
CollectNoCatch(f) ==
    /\ ~dry_run
    /\ ~crashed
    /\ pc[f] = "done"
    /\ f \notin collected
    /\ collected' = collected \cup {f}
    /\ completed' = completed + 1
    /\ per_chat' = AfterTry(per_chat, future[f])
    /\ origin' = OriginAfterTry(origin, future[f], f)
    /\ crashed' = TryRaises(future[f])
    /\ errs' = IF ~TryRaises(future[f]) /\ IsErrorResult(future[f].result)
                  THEN errs + 1 ELSE errs
    /\ UNCHANGED <<limiterVars, clock, threadVars, histVars, dry_run, seq_i,
                   content, future, llm, acqs, reqs, aggVars, mapVars,
                   labelVars>>
Collect(f) ==
    /\ ~dry_run
    /\ ~crashed
    /\ pc[f] = "done"
    /\ f \notin collected
    /\ collected' = collected \cup {f}
    /\ completed' = completed + 1
    /\ IF TryRaises(future[f])
          THEN /\ errs' = errs + 1
               /\ per_chat' = Append(AfterTry(per_chat, future[f]),
                      ProcessingErrorRecord(Basename(Path(f)),
                                            RaisedClass(future[f])))
               /\ origin' = Append(OriginAfterTry(origin, future[f], f), f)
          ELSE /\ per_chat' = Append(per_chat, future[f].result)
               /\ origin' = Append(origin, f)
               /\ errs' = IF IsErrorResult(future[f].result)
                             THEN errs + 1 ELSE errs
    /\ UNCHANGED <<limiterVars, clock, threadVars, histVars, dry_run, seq_i,
                   content, future, llm, acqs, reqs, crashed, aggVars, mapVars,
                   labelVars>>

\* One iteration of the sequential loop (taken when dry_run is set): main
\* calls process_single_file itself and appends what it returns. A file that
\* reaches the call of chat_complete enters wait_if_needed in main's thread.
SeqStep ==
    /\ dry_run
    /\ ~crashed
    /\ seq_i <= NumFiles
    /\ pc[seq_i] = "pending"
    /\ \E c \in Contents :
        /\ content' = [content EXCEPT ![seq_i] = c]
        /\ IF ReachesLLM(c, dry_run)
              THEN /\ pc' = [pc EXCEPT ![seq_i] = "want_lock"]
                   /\ UNCHANGED <<future, per_chat, origin, seq_i>>
              ELSE /\ future' = [future EXCEPT ![seq_i] =
                          Returned(EarlyRecord(Basename(Path(seq_i)), c, dry_run))]
                   /\ per_chat' = Append(per_chat, future'[seq_i].result)
                   /\ origin' = Append(origin, seq_i)
                   /\ pc' = [pc EXCEPT ![seq_i] = "done"]
                   /\ seq_i' = seq_i + 1
    /\ UNCHANGED <<limiterVars, clock, wake_at, histVars, dry_run, errs,
                   completed, collected, llm, acqs, reqs, crashed, aggVars, mapVars,
                   labelVars>>

\* main has left its loop by running it to the end.
Finished ==
    /\ ~crashed
    /\ IF dry_run THEN seq_i > NumFiles ELSE collected = Files

\* The last line main prints: `if errs > 0:` the warning with the count,
\* else the success line.
FinalSummary(n) ==
    IF n > 0 THEN [line |-> "files had errors", count |-> n]
    ELSE [line |-> "All files processed successfully", count |-> 0]

\* ------------------------------------------------------------- aggregation
\* The truth value Python gives a JSON value (`if x:`, `x or default`).
Truthy(v) ==
    CASE v.kind = "null" -> FALSE
      [] v.kind = "bool" -> v.b
      [] v.kind = "num" -> v.n # 0
      [] v.kind = "str" -> v.s # ""
      [] v.kind = "list" -> Len(v.items) > 0
      [] v.kind = "obj" -> DOMAIN v.o # {}
\* `x or default`
Or(v, default) == IF Truthy(v) THEN v ELSE default
\* `for x in v` raises TypeError when v is None. (The records of the model
\* carry a list or null where the program iterates.)
Iterable(v) == v.kind = "list"
\* `[x for x in v if x is not None]` and `[x for x in v if x]`
NotNone(items) == SelectSeq(items, LAMBDA x : x # Null)
Truthies(items) == SelectSeq(items, Truthy)

\* The characters of a string (for the strings whose text the program tests).
Chars(str) ==
    CASE str = "no-missing-feature-empty-transcript" ->
            <<"n","o","-","m","i","s","s","i","n","g","-","f","e","a","t","u",
              "r","e","-","e","m","p","t","y","-","t","r","a","n","s","c","r",
              "i","p","t">>
      [] str = "no-improvement-needed-empty-transcript" ->
            <<"n","o","-","i","m","p","r","o","v","e","m","e","n","t","-","n",
              "e","e","d","e","d","-","e","m","p","t","y","-","t","r","a","n",
              "s","c","r","i","p","t">>
      [] str = "no-missing-feature-incomplete-conversation" ->
            <<"n","o","-","m","i","s","s","i","n","g","-","f","e","a","t","u",
              "r","e","-","i","n","c","o","m","p","l","e","t","e","-","c","o",
              "n","v","e","r","s","a","t","i","o","n">>
      [] str = "no-improvement-needed-user-abandoned" ->
            <<"n","o","-","i","m","p","r","o","v","e","m","e","n","t","-","n",
              "e","e","d","e","d","-","u","s","e","r","-","a","b","a","n","d",
              "o","n","e","d">>
      [] str = "no-missing-feature-dry-run" ->
            <<"n","o","-","m","i","s","s","i","n","g","-","f","e","a","t","u",
              "r","e","-","d","r","y","-","r","u","n">>
      [] str = "no-improvement-needed-dry-run" ->
            <<"n","o","-","i","m","p","r","o","v","e","m","e","n","t","-","n",
              "e","e","d","e","d","-","d","r","y","-","r","u","n">>
      [] str = "no-missing-feature-parse-error" ->
            <<"n","o","-","m","i","s","s","i","n","g","-","f","e","a","t","u",
              "r","e","-","p","a","r","s","e","-","e","r","r","o","r">>
      [] str = "no-improvement-needed-parse-error" ->
            <<"n","o","-","i","m","p","r","o","v","e","m","e","n","t","-","n",
              "e","e","d","e","d","-","p","a","r","s","e","-","e","r","r","o",
              "r">>
      [] str = "none" ->
            <<"n","o","n","e">>
      [] str = "no-missing-feature-processing-error" ->
            <<"n","o","-","m","i","s","s","i","n","g","-","f","e","a","t","u",
              "r","e","-","p","r","o","c","e","s","s","i","n","g","-","e","r",
              "r","o","r">>
      [] str = "no-improvement-needed-processing-error" ->
            <<"n","o","-","i","m","p","r","o","v","e","m","e","n","t","-","n",
              "e","e","d","e","d","-","p","r","o","c","e","s","s","i","n","g",
              "-","e","r","r","o","r">>
      [] str = "add refund processing API" ->
            <<"a","d","d"," ","r","e","f","u","n","d"," ","p","r","o","c","e",
              "s","s","i","n","g"," ","A","P","I">>
      [] str = "integrate with billing system API" ->
            <<"i","n","t","e","g","r","a","t","e"," ","w","i","t","h"," ","b",
              "i","l","l","i","n","g"," ","s","y","s","t","e","m"," ","A","P",
              "I">>


\* `any(term in text for term in terms)`
AnyTermIn(terms, text) == \E term \in terms : IsSubstring(term, text)

\* consolidate_similar_features: the buckets in the order they are tested,
\* each with its name and the terms searched for in the lower-cased label.
FeatureBuckets ==
    <<
      [ name |->
            <<"c","a","n","c","e","l","l","a","t","i","o","n","-","p","r","o",
              "c","e","s","s","i","n","g","-","s","y","s","t","e","m">>,
        terms |->
            { <<"c","a","n","c","e","l","l","a","t","i","o","n">>,
              <<"c","a","n","c","e","l">> } ],
      [ name |->
            <<"t","h","i","r","d","-","p","a","r","t","y","-","i","n","t","e",
              "g","r","a","t","i","o","n","-","s","u","p","p","o","r","t">>,
        terms |->
            { <<"i","n","t","e","g","r","a","t","i","o","n">>,
              <<"c","l","i","c","k","m","a","g","i","c","k">>,
              <<"w","e","e","b","l","y">>, <<"w","i","x">>,
              <<"e","v","e","r","f","l","o","w">> } ],
      [ name |->
            <<"a","p","i","-","s","y","s","t","e","m","-","a","c","c","e","s",
              "s">>,
        terms |->
            { <<"a","p","i">>, <<"a","c","c","e","s","s">>,
              <<"s","c","h","e","m","a">>, <<"s","y","s","t","e","m">> } ],
      [ name |->
            <<"u","i","-","u","x","-","e","n","h","a","n","c","e","m","e","n",
              "t","s">>,
        terms |->
            { <<"u","i">>, <<"i","n","t","e","r","f","a","c","e">>,
              <<"w","o","r","k","f","l","o","w">>, <<"f","o","r","m">>,
              <<"d","e","s","k","t","o","p">> } ],
      [ name |->
            <<"l","i","v","e","-","s","u","p","p","o","r","t","-","f","e","a",
              "t","u","r","e","s">>,
        terms |->
            { <<"l","i","v","e">>, <<"a","g","e","n","t">>,
              <<"h","u","m","a","n">>, <<"s","u","p","p","o","r","t">> } ],
      [ name |->
            <<"d","o","c","u","m","e","n","t","-","b","i","l","l","i","n","g",
              "-","s","y","s","t","e","m">>,
        terms |->
            { <<"i","n","v","o","i","c","e">>,
              <<"b","i","l","l","i","n","g">>,
              <<"d","o","c","u","m","e","n","t">>,
              <<"t","i","c","k","e","t">> } ],
      [ name |->
            <<"a","d","-","m","a","n","a","g","e","m","e","n","t","-","f","e",
              "a","t","u","r","e","s">>,
        terms |->
            { <<"a","d">>, <<"c","a","m","p","a","i","g","n">>,
              <<"e","v","e","n","t">>, <<"a","p","p","r","o","v","a","l">> } ],
      [ name |->
            <<"a","c","c","o","u","n","t","-","m","a","n","a","g","e","m","e",
              "n","t","-","f","e","a","t","u","r","e","s">>,
        terms |->
            { <<"a","c","c","o","u","n","t">>,
              <<"v","e","r","i","f","i","c","a","t","i","o","n">>,
              <<"p","e","r","m","i","s","s","i","o","n">> } ]
    >>
\* consolidate_similar_features: the name of the first bucket one of whose
\* terms occurs in the lower-cased label, or the label itself.
RECURSIVE FirstBucket(_, _)
FirstBucket(label, i) ==
    IF i > Len(FeatureBuckets) THEN label
    ELSE IF AnyTermIn(FeatureBuckets[i].terms, Lower(label))
        THEN FeatureBuckets[i].name
    ELSE FirstBucket(label, i + 1)
consolidate_similar_features(feature_name) == FirstBucket(feature_name, 1)

\* The terms of categorize_technical_requirements.
ApiTerms ==
    { <<"a","p","i">>, <<"i","n","t","e","g","r","a","t","e">>,
      <<"s","y","s","t","e","m">>, <<"d","a","t","a","b","a","s","e">> }
UiTerms ==
    { <<"u","i">>, <<"i","n","t","e","r","f","a","c","e">>,
      <<"w","o","r","k","f","l","o","w">>, <<"f","o","r","m">>,
      <<"b","u","t","t","o","n">> }
DocTerms ==
    { <<"k","n","o","w","l","e","d","g","e">>, <<"g","u","i","d","e">>,
      <<"i","n","s","t","r","u","c","t","i","o","n">>,
      <<"d","o","c","u","m","e","n","t","a","t","i","o","n">> }

\* A collections.Counter is a function from its keys to their counts.
EmptyCounter == [k \in {} |-> 0]
\* `counter[key] += 1`
Inc(counter, key) ==
    IF key \in DOMAIN counter
        THEN [counter EXCEPT ![key] = @ + 1]
        ELSE [k \in DOMAIN counter \cup {key} |->
                 IF k = key THEN 1 ELSE counter[k]]
\* `counter[key] += 1` when cond holds
IncIf(cond, counter, key) == IF cond THEN Inc(counter, key) ELSE counter
\* `for key in keys: counter[key] += 1`
RECURSIVE IncAll(_, _)
IncAll(counter, keys) ==
    IF keys = <<>> THEN counter
    ELSE IncAll(Inc(counter, Head(keys)), Tail(keys))

\* The counters main builds (lines 579-605), all empty.
NoCounters ==
    [ topic_counts |-> EmptyCounter, topic_solved |-> EmptyCounter,
      reason_counts |-> EmptyCounter,
      failure_category_counts |-> EmptyCounter,
      improvement_needed_counts |-> EmptyCounter,
      missing_feature_counts |-> EmptyCounter,
      feature_category_counts |-> EmptyCounter,
      technical_requirement_counts |-> EmptyCounter,
      api_integration_counts |-> EmptyCounter,
      ui_workflow_counts |-> EmptyCounter,
      documentation_gap_counts |-> EmptyCounter,
      success_pattern_counts |-> EmptyCounter,
      demonstrated_skills_counts |-> EmptyCounter,
      user_satisfaction_counts |-> EmptyCounter,
      conversation_flow_counts |-> EmptyCounter,
      escalation_trigger_counts |-> EmptyCounter,
      error_pattern_counts |-> EmptyCounter,
      user_emotion_counts |-> EmptyCounter,
      conversation_complexity_counts |-> EmptyCounter,
      feature_priority_counts |-> EmptyCounter,
      improvement_effort_counts |-> EmptyCounter ]

\* The fields the row loop iterates with no `or []` (lines 563-568), and
\* those the counting loop iterates: why_unsolved and the three flow fields
\* for every record, the three success fields for a solved one.
RowIterated ==
    { "success_patterns", "demonstrated_skills", "user_satisfaction_indicators",
      "conversation_flow", "escalation_triggers", "error_patterns" }
IsSolved(r) == Truthy(Get(r, "solved", B(FALSE)))
CountIterated(r) ==
    { "why_unsolved", "conversation_flow", "escalation_triggers",
      "error_patterns" }
    \cup (IF IsSolved(r)
             THEN { "success_patterns", "demonstrated_skills",
                    "user_satisfaction_indicators" }
             ELSE {})
\* Building the row of r, or counting r, raises TypeError: an iterated field
\* is present and is no list.
RowRaises(r) == \E k \in RowIterated : ~Iterable(Get(r, k, L(<<>>)))
CountRaises(r) == \E k \in CountIterated(r) : ~Iterable(Get(r, k, L(<<>>)))

\* str(x) for an item of a list or a scalar field
StrOf(v) == IF v.kind = "str" THEN v.s ELSE ToString(v.n)
\* sep.join(str(x) for x in items if x is not None): the separator and the
\* parts joined.
Join(sep, items) ==
    [sep |-> sep, parts |-> [i \in DOMAIN NotNone(items) |-> StrOf(NotNone(items)[i])]]
\* str(r.get(key, default) or default)
StrField(r, key, default) == StrOf(Or(Get(r, key, S(default)), S(default)))
\* The row of record r (lines 545-573).
RowOf(r) ==
    [ file |-> r.file.s,
      topics |-> Join(",", Or(Get(r, "topics", L(<<>>)), L(<<>>)).items),
      user_tasks |->
          Join("; ", Or(Get(r, "user_tasks_attempted", L(<<>>)), L(<<>>)).items),
      solved |-> IsSolved(r),
      needs_human |-> Truthy(Get(r, "needs_human", B(FALSE))),
      failure_category |-> StrField(r, "failure_category", "unknown"),
      missing_feature |-> StrField(r, "missing_feature", "no-missing-feature"),
      feature_category |->
          StrField(r, "feature_category", "no-feature-category"),
      why_unsolved |->
          Join("; ", Or(Get(r, "why_unsolved", L(<<>>)), L(<<>>)).items),
      improvement_needed |->
          StrField(r, "specific_improvement_needed", "no-improvement-needed"),
      capabilities |->
          Join("; ", Or(Get(r, "capabilities", L(<<>>)), L(<<>>)).items),
      success_patterns |-> Join("; ", Get(r, "success_patterns", L(<<>>)).items),
      demonstrated_skills |->
          Join("; ", Get(r, "demonstrated_skills", L(<<>>)).items),
      user_satisfaction_indicators |->
          Join("; ", Get(r, "user_satisfaction_indicators", L(<<>>)).items),
      conversation_flow |-> Join("; ", Get(r, "conversation_flow", L(<<>>)).items),
      escalation_triggers |->
          Join("; ", Get(r, "escalation_triggers", L(<<>>)).items),
      error_patterns |-> Join("; ", Get(r, "error_patterns", L(<<>>)).items),
      user_emotion |-> StrField(r, "user_emotion", "neutral"),
      conversation_complexity |->
          StrField(r, "conversation_complexity", "simple"),
      feature_priority_score |->
          Or(Get(r, "feature_priority_score", N(1)), N(1)).n,
      improvement_effort |-> StrField(r, "improvement_effort", "low") ]

\* One pass of `for r in per_chat` (lines 607-691) over record r.
TopicsOf(r) == Or(Get(r, "topics", L(<<>>)), L(<<S("unlabeled")>>)).items
FailureCat(r) ==
    IF Get(r, "failure_category", S("unknown")) = Null THEN S("unknown")
    ELSE Get(r, "failure_category", S("unknown"))
NoImprovement == S("no-improvement-needed")
Improvement(r) ==
    IF Get(r, "specific_improvement_needed", NoImprovement) \in {Null, S("")}
        THEN NoImprovement
        ELSE Get(r, "specific_improvement_needed", NoImprovement)
FeatureNotSupported(r) ==
    Get(r, "failure_category", Null) = S("feature-not-supported")
MissingFeature(r) == Get(r, "missing_feature", S("unknown-feature"))
CountsMissingFeature(r) ==
    /\ FeatureNotSupported(r)
    /\ Truthy(MissingFeature(r))
    /\ MissingFeature(r) # S("unknown-feature")
FeatureCat(r) == Get(r, "feature_category", S("other"))
TechImprovement(r) == Get(r, "specific_improvement_needed", NoImprovement)
HasTechImprovement(r) ==
    Truthy(TechImprovement(r)) /\ TechImprovement(r) # NoImprovement
TechText(r) == Lower(Chars(TechImprovement(r).s))
SolvedItems(r, key) ==
    IF IsSolved(r) THEN Truthies(Get(r, key, L(<<>>)).items) ELSE <<>>
AddRecordSolvedFirst(c, r) ==
    [ c EXCEPT
        !.topic_counts = IncAll(@, TopicsOf(r)),
        !.topic_solved =
            IF IsSolved(r) /\ c.topic_counts = EmptyCounter
                THEN IncAll(@, TopicsOf(r)) ELSE @ ]
AddRecord(c, r) ==
    [ c EXCEPT
        !.topic_counts = IncAll(@, TopicsOf(r)),
        !.topic_solved = IF IsSolved(r) THEN IncAll(@, TopicsOf(r)) ELSE @,
        !.reason_counts = IncAll(@, Get(r, "why_unsolved", L(<<>>)).items),
        !.failure_category_counts = Inc(@, FailureCat(r)),
        !.improvement_needed_counts =
            IncIf(Improvement(r) # NoImprovement, @, Improvement(r)),
        !.missing_feature_counts =
            IF CountsMissingFeature(r)
                THEN Inc(@, consolidate_similar_features(
                                Chars(MissingFeature(r).s)))
                ELSE @,
        !.feature_category_counts =
            IncIf(FeatureNotSupported(r) /\ Truthy(FeatureCat(r)), @,
                  FeatureCat(r)),
        !.technical_requirement_counts =
            IncIf(HasTechImprovement(r), @, TechImprovement(r)),
        !.api_integration_counts =
            IncIf(HasTechImprovement(r) /\ AnyTermIn(ApiTerms, TechText(r)),
                  @, TechImprovement(r)),
        !.ui_workflow_counts =
            IncIf(HasTechImprovement(r) /\ AnyTermIn(UiTerms, TechText(r)),
                  @, TechImprovement(r)),
        !.documentation_gap_counts =
            IncIf(HasTechImprovement(r) /\ AnyTermIn(DocTerms, TechText(r)),
                  @, TechImprovement(r)),
        !.success_pattern_counts = IncAll(@, SolvedItems(r, "success_patterns")),
        !.demonstrated_skills_counts =
            IncAll(@, SolvedItems(r, "demonstrated_skills")),
        !.user_satisfaction_counts =
            IncAll(@, SolvedItems(r, "user_satisfaction_indicators")),
        !.conversation_flow_counts =
            IncAll(@, Truthies(Get(r, "conversation_flow", L(<<>>)).items)),
        !.escalation_trigger_counts =
            IncAll(@, Truthies(Get(r, "escalation_triggers", L(<<>>)).items)),
        !.error_pattern_counts =
            IncAll(@, Truthies(Get(r, "error_patterns", L(<<>>)).items)),
        !.user_emotion_counts =
            IncIf(Truthy(Get(r, "user_emotion", S("neutral"))), @,
                  Get(r, "user_emotion", S("neutral"))),
        !.conversation_complexity_counts =
            IncIf(Truthy(Get(r, "conversation_complexity", S("simple"))), @,
                  Get(r, "conversation_complexity", S("simple"))),
        !.feature_priority_counts =
            IncIf(Truthy(Get(r, "feature_priority_score", N(1))), @,
                  Get(r, "feature_priority_score", N(1))),
        !.improvement_effort_counts =
            IncIf(Truthy(Get(r, "improvement_effort", S("low"))), @,
                  Get(r, "improvement_effort", S("low"))) ]

\* The counting loop over a list of records none of which raises.
RECURSIVE CountAll(_, _)
CountAll(c, list) ==
    IF list = <<>> THEN c ELSE CountAll(AddRecord(c, Head(list)), Tail(list))

\* main after its loop: the rows are built from per_chat (an exception
\* leaves main: the loop has no try), then the counters.
FlattenRows ==
    /\ Finished
    /\ agg = "start"
    /\ IF \E i \in DOMAIN per_chat : RowRaises(per_chat[i])
          THEN agg' = "TypeError" /\ UNCHANGED rows
          ELSE /\ agg' = "rows"
               /\ rows' = [i \in DOMAIN per_chat |-> RowOf(per_chat[i])]
    /\ UNCHANGED <<limiterVars, clock, threadVars, histVars, dry_run,
                   per_chat, errs, completed, seq_i, collected, crashed,
                   content, llm, future, origin, acqs, reqs, counters,
                   mapVars, labelVars>>
BuildCounters ==
    /\ agg = "rows"
    /\ IF \E i \in DOMAIN per_chat : CountRaises(per_chat[i])
          THEN agg' = "TypeError" /\ UNCHANGED counters
          ELSE /\ agg' = "counted"
               /\ counters' = CountAll(NoCounters, per_chat)
    /\ UNCHANGED <<limiterVars, clock, threadVars, histVars, dry_run,
                   per_chat, errs, completed, seq_i, collected, crashed,
                   content, llm, future, origin, acqs, reqs, rows,
                   mapVars, labelVars>>

\* ------------------------------------------- create_consolidated_mapping
\* (generate_executive_report.py)

\* consolidate_similar_features of generate_executive_report.py: its buckets
\* in the order they are tested, each with its name and its terms.
ProblemBuckets ==
    << [ name |-> <<"a","c","c","o","u","n","t","-","a","c","c","e","s","s","-",
                      "v","e","r","i","f","i","c","a","t","i","o","n">>,
         terms |-> { <<"a","c","c","o","u","n","t">>,
                     <<"v","e","r","i","f","i","c","a","t","i","o","n">>,
                     <<"p","e","r","m","i","s","s","i","o","n">>,
                     <<"a","c","c","e","s","s">>, <<"l","o","g","i","n">>,
                     <<"p","a","s","s","w","o","r","d">>,
                     <<"s","e","c","u","r","i","t","y">> } ],
       [ name |-> <<"a","d","-","c","a","m","p","a","i","g","n","-","m","a","n",
                      "a","g","e","m","e","n","t">>,
         terms |-> { <<"a","d">>, <<"c","a","m","p","a","i","g","n">>,
                     <<"e","v","e","n","t">>,
                     <<"a","p","p","r","o","v","a","l">>,
                     <<"r","e","j","e","c","t","i","o","n">>,
                     <<"s","c","h","e","d","u","l","i","n","g">>,
                     <<"p","i","x","e","l">>,
                     <<"t","r","a","c","k","i","n","g">> } ],
       [ name |-> <<"a","p","i","-","s","y","s","t","e","m","-","i","n","t","e",
                      "g","r","a","t","i","o","n">>,
         terms |-> { <<"a","p","i">>, <<"s","y","s","t","e","m">>,
                     <<"i","n","t","e","g","r","a","t","i","o","n">>,
                     <<"c","l","i","c","k","m","a","g","i","c","k">>,
                     <<"w","e","e","b","l","y">>, <<"w","i","x">>,
                     <<"e","v","e","r","f","l","o","w">>,
                     <<"t","h","i","r","d","-","p","a","r","t","y">> } ],
       [ name |-> <<"l","i","v","e","-","s","u","p","p","o","r","t","-","e","s",
                      "c","a","l","a","t","i","o","n">>,
         terms |-> { <<"l","i","v","e">>, <<"a","g","e","n","t">>,
                     <<"h","u","m","a","n">>, <<"s","u","p","p","o","r","t">>,
                     <<"e","s","c","a","l","a","t","i","o","n">>,
                     <<"a","s","s","i","s","t","a","n","c","e">> } ],
       [ name |-> <<"u","i","-","u","x","-","w","o","r","k","f","l","o","w","-",
                      "i","m","p","r","o","v","e","m","e","n","t","s">>,
         terms |-> { <<"u","i">>, <<"i","n","t","e","r","f","a","c","e">>,
                     <<"w","o","r","k","f","l","o","w">>, <<"f","o","r","m">>,
                     <<"d","e","s","k","t","o","p">>,
                     <<"n","a","v","i","g","a","t","i","o","n">>,
                     <<"u","s","e","r","-","e","x","p","e","r","i","e","n","c","e">> } ],
       [ name |-> <<"d","o","c","u","m","e","n","t","-","b","i","l","l","i","n",
                      "g","-","p","a","y","m","e","n","t">>,
         terms |-> { <<"i","n","v","o","i","c","e">>,
                     <<"b","i","l","l","i","n","g">>,
                     <<"d","o","c","u","m","e","n","t">>,
                     <<"t","i","c","k","e","t">>,
                     <<"p","a","y","m","e","n","t">>,
                     <<"r","e","f","u","n","d">>,
                     <<"c","r","e","d","i","t">> } ],
       [ name |-> <<"t","e","c","h","n","i","c","a","l","-","t","r","o","u","b",
                      "l","e","s","h","o","o","t","i","n","g">>,
         terms |-> { <<"t","e","c","h","n","i","c","a","l">>,
                     <<"t","r","o","u","b","l","e","s","h","o","o","t","i","n","g">>,
                     <<"c","o","m","p","l","e","x">>, <<"d","e","b","u","g">>,
                     <<"e","r","r","o","r">>, <<"i","s","s","u","e">>,
                     <<"p","r","o","b","l","e","m">> } ],
       [ name |-> <<"i","n","f","o","r","m","a","t","i","o","n","-","g","u","i",
                      "d","a","n","c","e","-","r","e","q","u","e","s","t","s">>,
         terms |-> { <<"i","n","f","o","r","m","a","t","i","o","n">>,
                     <<"g","u","i","d","a","n","c","e">>,
                     <<"i","n","s","t","r","u","c","t","i","o","n">>,
                     <<"h","e","l","p">>, <<"h","o","w","-","t","o">>,
                     <<"e","x","p","l","a","n","a","t","i","o","n">>,
                     <<"c","l","a","r","i","f","i","c","a","t","i","o","n">> } ],
       [ name |-> <<"p","o","l","i","c","y","-","c","o","m","p","l","i","a","n",
                      "c","e","-","q","u","e","s","t","i","o","n","s">>,
         terms |-> { <<"p","o","l","i","c","y">>,
                     <<"c","o","m","p","l","i","a","n","c","e">>,
                     <<"t","e","r","m","s">>, <<"r","u","l","e","s">>,
                     <<"g","u","i","d","e","l","i","n","e","s">>,
                     <<"r","e","q","u","i","r","e","m","e","n","t","s">> } ],
       [ name |-> <<"p","e","r","f","o","r","m","a","n","c","e","-","o","p","t",
                      "i","m","i","z","a","t","i","o","n">>,
         terms |-> { <<"p","e","r","f","o","r","m","a","n","c","e">>,
                     <<"o","p","t","i","m","i","z","a","t","i","o","n">>,
                     <<"s","p","e","e","d">>,
                     <<"e","f","f","i","c","i","e","n","c","y">>,
                     <<"i","m","p","r","o","v","e","m","e","n","t">>,
                     <<"e","n","h","a","n","c","e","m","e","n","t">> } ],
       [ name |-> <<"d","a","t","a","-","a","n","a","l","y","t","i","c","s","-",
                      "r","e","p","o","r","t","i","n","g">>,
         terms |-> { <<"d","a","t","a">>,
                     <<"a","n","a","l","y","t","i","c","s">>,
                     <<"r","e","p","o","r","t","i","n","g">>,
                     <<"m","e","t","r","i","c","s">>,
                     <<"s","t","a","t","i","s","t","i","c","s">>,
                     <<"i","n","s","i","g","h","t","s">> } ],
       [ name |-> <<"c","u","s","t","o","m","e","r","-","s","e","r","v","i","c",
                      "e","-","s","u","p","p","o","r","t">>,
         terms |-> { <<"c","u","s","t","o","m","e","r">>,
                     <<"s","e","r","v","i","c","e">>,
                     <<"s","u","p","p","o","r","t">>, <<"h","e","l","p">>,
                     <<"a","s","s","i","s","t","a","n","c","e">>,
                     <<"c","o","n","t","a","c","t">> } ],
       [ name |-> <<"p","l","a","t","f","o","r","m","-","i","n","f","r","a","s",
                      "t","r","u","c","t","u","r","e">>,
         terms |-> { <<"p","l","a","t","f","o","r","m">>,
                     <<"i","n","f","r","a","s","t","r","u","c","t","u","r","e">>,
                     <<"s","e","r","v","e","r">>,
                     <<"h","o","s","t","i","n","g">>,
                     <<"d","e","p","l","o","y","m","e","n","t">>,
                     <<"s","c","a","l","a","b","i","l","i","t","y">> } ],
       [ name |-> <<"s","e","c","u","r","i","t","y","-","p","r","i","v","a","c",
                      "y","-","c","o","m","p","l","i","a","n","c","e">>,
         terms |-> { <<"s","e","c","u","r","i","t","y">>,
                     <<"p","r","i","v","a","c","y">>,
                     <<"a","u","t","h","e","n","t","i","c","a","t","i","o","n">>,
                     <<"a","u","t","h","o","r","i","z","a","t","i","o","n">>,
                     <<"e","n","c","r","y","p","t","i","o","n">>,
                     <<"c","o","m","p","l","i","a","n","c","e">> } ],
       [ name |-> <<"m","o","b","i","l","e","-","a","c","c","e","s","s","i","b",
                      "i","l","i","t","y">>,
         terms |-> { <<"m","o","b","i","l","e">>, <<"a","p","p">>,
                     <<"a","c","c","e","s","s","i","b","i","l","i","t","y">>,
                     <<"r","e","s","p","o","n","s","i","v","e">>,
                     <<"d","e","v","i","c","e">>,
                     <<"t","a","b","l","e","t">> } ],
       [ name |-> <<"c","o","n","t","e","n","t","-","m","e","d","i","a","-","m",
                      "a","n","a","g","e","m","e","n","t">>,
         terms |-> { <<"c","o","n","t","e","n","t">>, <<"m","e","d","i","a">>,
                     <<"i","m","a","g","e">>, <<"v","i","d","e","o">>,
                     <<"f","i","l","e">>, <<"u","p","l","o","a","d">>,
                     <<"d","o","w","n","l","o","a","d">> } ],
       [ name |-> <<"c","o","m","m","u","n","i","c","a","t","i","o","n","-","n",
                      "o","t","i","f","i","c","a","t","i","o","n","s">>,
         terms |-> { <<"c","o","m","m","u","n","i","c","a","t","i","o","n">>,
                     <<"n","o","t","i","f","i","c","a","t","i","o","n">>,
                     <<"e","m","a","i","l">>, <<"m","e","s","s","a","g","e">>,
                     <<"a","l","e","r","t">>,
                     <<"r","e","m","i","n","d","e","r">> } ],
       [ name |-> <<"s","e","a","r","c","h","-","d","i","s","c","o","v","e","r",
                      "y","-","n","a","v","i","g","a","t","i","o","n">>,
         terms |-> { <<"s","e","a","r","c","h">>,
                     <<"d","i","s","c","o","v","e","r","y">>,
                     <<"f","i","n","d">>, <<"l","o","c","a","t","e">>,
                     <<"b","r","o","w","s","e">>,
                     <<"e","x","p","l","o","r","e">> } ] >>
OtherSpecificFeatures ==
    <<"o","t","h","e","r","-","s","p","e","c","i","f","i","c",
      "-","f","e","a","t","u","r","e","s">>
\* create_broad_sub_category: its buckets in the order they are tested.
SubCategoryBuckets ==
    << [ name |-> <<"n","e","e","d","-","a","p","i","-","s","y","s","t","e","m",
                      "-","a","c","c","e","s","s">>,
         terms |-> { <<"a","p","i">>, <<"s","y","s","t","e","m">>,
                     <<"i","n","t","e","g","r","a","t","i","o","n">>,
                     <<"a","c","c","e","s","s">>,
                     <<"e","n","d","p","o","i","n","t">>,
                     <<"s","e","r","v","i","c","e">>,
                     <<"b","a","c","k","e","n","d">> } ],
       [ name |-> <<"n","e","e","d","-","i","n","f","o","r","m","a","t","i","o",
                      "n","-","k","n","o","w","l","e","d","g","e">>,
         terms |-> { <<"i","n","f","o","r","m","a","t","i","o","n">>,
                     <<"k","n","o","w","l","e","d","g","e">>,
                     <<"g","u","i","d","e">>,
                     <<"i","n","s","t","r","u","c","t","i","o","n">>,
                     <<"h","e","l","p">>, <<"h","o","w","-","t","o">>,
                     <<"e","x","p","l","a","n","a","t","i","o","n">>,
                     <<"d","o","c","u","m","e","n","t","a","t","i","o","n">> } ],
       [ name |-> <<"n","e","e","d","-","p","e","r","m","i","s","s","i","o","n",
                      "-","a","c","c","e","s","s","-","c","o","n","t","r","o","l">>,
         terms |-> { <<"p","e","r","m","i","s","s","i","o","n">>,
                     <<"a","c","c","e","s","s">>,
                     <<"a","u","t","h","o","r","i","z","a","t","i","o","n">>,
                     <<"r","o","l","e">>,
                     <<"p","r","i","v","i","l","e","g","e">>,
                     <<"s","e","c","u","r","i","t","y">>,
                     <<"a","u","t","h","e","n","t","i","c","a","t","i","o","n">> } ],
       [ name |-> <<"n","e","e","d","-","u","i","-","u","x","-","i","m","p","r",
                      "o","v","e","m","e","n","t","s">>,
         terms |-> { <<"u","i">>, <<"i","n","t","e","r","f","a","c","e">>,
                     <<"b","u","t","t","o","n">>, <<"f","o","r","m">>,
                     <<"w","o","r","k","f","l","o","w">>,
                     <<"n","a","v","i","g","a","t","i","o","n">>,
                     <<"u","s","e","r","-","e","x","p","e","r","i","e","n","c","e">>,
                     <<"d","e","s","i","g","n">> } ],
       [ name |-> <<"n","e","e","d","-","d","a","t","a","-","a","n","a","l","y",
                      "t","i","c","s">>,
         terms |-> { <<"d","a","t","a">>,
                     <<"a","n","a","l","y","t","i","c","s">>,
                     <<"r","e","p","o","r","t","i","n","g">>,
                     <<"m","e","t","r","i","c","s">>,
                     <<"s","t","a","t","i","s","t","i","c","s">>,
                     <<"i","n","s","i","g","h","t","s">>,
                     <<"d","a","s","h","b","o","a","r","d">> } ],
       [ name |-> <<"n","e","e","d","-","f","e","a","t","u","r","e","-","f","u",
                      "n","c","t","i","o","n","a","l","i","t","y">>,
         terms |-> { <<"f","e","a","t","u","r","e">>,
                     <<"f","u","n","c","t","i","o","n">>,
                     <<"c","a","p","a","b","i","l","i","t","y">>,
                     <<"t","o","o","l">>, <<"o","p","t","i","o","n">>,
                     <<"s","e","t","t","i","n","g">>,
                     <<"c","o","n","f","i","g","u","r","a","t","i","o","n">> } ],
       [ name |-> <<"n","e","e","d","-","i","n","t","e","g","r","a","t","i","o",
                      "n","-","s","u","p","p","o","r","t">>,
         terms |-> { <<"i","n","t","e","g","r","a","t","i","o","n">>,
                     <<"t","h","i","r","d","-","p","a","r","t","y">>,
                     <<"e","x","t","e","r","n","a","l">>,
                     <<"c","o","n","n","e","c","t">>, <<"s","y","n","c">>,
                     <<"i","m","p","o","r","t">>,
                     <<"e","x","p","o","r","t">> } ],
       [ name |-> <<"n","e","e","d","-","w","o","r","k","f","l","o","w","-","a",
                      "u","t","o","m","a","t","i","o","n">>,
         terms |-> { <<"w","o","r","k","f","l","o","w">>,
                     <<"p","r","o","c","e","s","s">>,
                     <<"a","u","t","o","m","a","t","i","o","n">>,
                     <<"a","p","p","r","o","v","a","l">>,
                     <<"r","e","v","i","e","w">>, <<"s","t","e","p">>,
                     <<"s","e","q","u","e","n","c","e">> } ],
       [ name |-> <<"n","e","e","d","-","h","u","m","a","n","-","s","u","p","p",
                      "o","r","t">>,
         terms |-> { <<"s","u","p","p","o","r","t">>,
                     <<"a","s","s","i","s","t","a","n","c","e">>,
                     <<"h","e","l","p">>, <<"l","i","v","e">>,
                     <<"a","g","e","n","t">>, <<"h","u","m","a","n">>,
                     <<"e","s","c","a","l","a","t","i","o","n">> } ],
       [ name |-> <<"n","e","e","d","-","p","e","r","f","o","r","m","a","n","c",
                      "e","-","o","p","t","i","m","i","z","a","t","i","o","n">>,
         terms |-> { <<"p","e","r","f","o","r","m","a","n","c","e">>,
                     <<"s","p","e","e","d">>,
                     <<"e","f","f","i","c","i","e","n","c","y">>,
                     <<"o","p","t","i","m","i","z","a","t","i","o","n">>,
                     <<"s","c","a","l","a","b","i","l","i","t","y">>,
                     <<"r","e","s","o","u","r","c","e">> } ],
       [ name |-> <<"n","e","e","d","-","s","e","c","u","r","i","t","y","-","c",
                      "o","m","p","l","i","a","n","c","e">>,
         terms |-> { <<"s","e","c","u","r","i","t","y">>,
                     <<"c","o","m","p","l","i","a","n","c","e">>,
                     <<"p","r","i","v","a","c","y">>,
                     <<"e","n","c","r","y","p","t","i","o","n">>,
                     <<"a","u","d","i","t">>,
                     <<"c","e","r","t","i","f","i","c","a","t","i","o","n">> } ],
       [ name |-> <<"n","e","e","d","-","m","o","b","i","l","e","-","a","c","c",
                      "e","s","s","i","b","i","l","i","t","y">>,
         terms |-> { <<"m","o","b","i","l","e">>, <<"a","p","p">>,
                     <<"a","c","c","e","s","s","i","b","i","l","i","t","y">>,
                     <<"r","e","s","p","o","n","s","i","v","e">>,
                     <<"d","e","v","i","c","e">>, <<"t","a","b","l","e","t">>,
                     <<"m","o","b","i","l","e","-","f","r","i","e","n","d","l","y">> } ],
       [ name |-> <<"n","e","e","d","-","c","o","n","t","e","n","t","-","m","e",
                      "d","i","a","-","s","u","p","p","o","r","t">>,
         terms |-> { <<"c","o","n","t","e","n","t">>, <<"m","e","d","i","a">>,
                     <<"i","m","a","g","e">>, <<"v","i","d","e","o">>,
                     <<"f","i","l","e">>, <<"u","p","l","o","a","d">>,
                     <<"d","o","w","n","l","o","a","d">>,
                     <<"s","t","o","r","a","g","e">> } ],
       [ name |-> <<"n","e","e","d","-","c","o","m","m","u","n","i","c","a","t",
                      "i","o","n","-","n","o","t","i","f","i","c","a","t","i","o",
                      "n","s">>,
         terms |-> { <<"c","o","m","m","u","n","i","c","a","t","i","o","n">>,
                     <<"n","o","t","i","f","i","c","a","t","i","o","n">>,
                     <<"e","m","a","i","l">>, <<"m","e","s","s","a","g","e">>,
                     <<"a","l","e","r","t">>,
                     <<"r","e","m","i","n","d","e","r">>,
                     <<"u","p","d","a","t","e">> } ],
       [ name |-> <<"n","e","e","d","-","s","e","a","r","c","h","-","d","i","s",
                      "c","o","v","e","r","y">>,
         terms |-> { <<"s","e","a","r","c","h">>,
                     <<"d","i","s","c","o","v","e","r","y">>,
                     <<"f","i","n","d">>, <<"l","o","c","a","t","e">>,
                     <<"b","r","o","w","s","e">>,
                     <<"e","x","p","l","o","r","e">>,
                     <<"f","i","l","t","e","r">> } ],
       [ name |-> <<"n","e","e","d","-","b","i","l","l","i","n","g","-","p","a",
                      "y","m","e","n","t","-","s","y","s","t","e","m">>,
         terms |-> { <<"b","i","l","l","i","n","g">>,
                     <<"p","a","y","m","e","n","t">>,
                     <<"i","n","v","o","i","c","e">>,
                     <<"r","e","f","u","n","d">>, <<"c","r","e","d","i","t">>,
                     <<"c","h","a","r","g","e">>,
                     <<"s","u","b","s","c","r","i","p","t","i","o","n">> } ] >>
NeedOtherSpecificFeatures ==
    <<"n","e","e","d","-","o","t","h","e","r","-","s","p","e",
      "c","i","f","i","c","-","f","e","a","t","u","r","e","s">>

\* The name of the first bucket one of whose terms occurs in the lower-cased
\* label, or the default.
RECURSIVE FirstBucketOf(_, _, _, _)
FirstBucketOf(buckets, default, label, i) ==
    IF i > Len(buckets) THEN default
    ELSE IF AnyTermIn(buckets[i].terms, Lower(label)) THEN buckets[i].name
    ELSE FirstBucketOf(buckets, default, label, i + 1)
report_consolidate_similar_features(feature_name) ==
    FirstBucketOf(ProblemBuckets, OtherSpecificFeatures, feature_name, 1)
create_broad_sub_category(sub_problem_name) ==
    FirstBucketOf(SubCategoryBuckets, NeedOtherSpecificFeatures,
                  sub_problem_name, 1)

\* The code point of a character of a category name, and `a < b` for two
\* strings (the order list.sort and `<` use).
CharCode(ch) ==
    CASE ch = "-" -> 45 [] ch = "a" -> 97 [] ch = "b" -> 98
      [] ch = "c" -> 99 [] ch = "d" -> 100 [] ch = "e" -> 101
      [] ch = "f" -> 102 [] ch = "g" -> 103 [] ch = "h" -> 104
      [] ch = "i" -> 105 [] ch = "j" -> 106 [] ch = "k" -> 107
      [] ch = "l" -> 108 [] ch = "m" -> 109 [] ch = "n" -> 110
      [] ch = "o" -> 111 [] ch = "p" -> 112 [] ch = "q" -> 113
      [] ch = "r" -> 114 [] ch = "s" -> 115 [] ch = "t" -> 116
      [] ch = "u" -> 117 [] ch = "v" -> 118 [] ch = "w" -> 119
      [] ch = "x" -> 120 [] ch = "y" -> 121 [] ch = "z" -> 122
RECURSIVE StrLess(_, _)
StrLess(a, b) ==
    IF b = <<>> THEN FALSE
    ELSE IF a = <<>> THEN TRUE
    ELSE IF Head(a) = Head(b) THEN StrLess(Tail(a), Tail(b))
    ELSE CharCode(Head(a)) < CharCode(Head(b))

\* A dict is the sequence of its items in insertion order, with distinct keys.
Item(key, val) == [key |-> key, val |-> val]
DictHas(d, key) == \E i \in DOMAIN d : d[i].key = key
DictGet(d, key) == d[CHOOSE i \in DOMAIN d : d[i].key = key].val
DictPut(d, key, val) ==
    IF DictHas(d, key)
        THEN [i \in DOMAIN d |-> IF d[i].key = key THEN Item(key, val) ELSE d[i]]
        ELSE Append(d, Item(key, val))
\* `x in list`, `list.append(x)` under `if x not in list`, `list.remove(x)`
\* under `if x in list`
InList(list, x) == \E i \in DOMAIN list : list[i] = x
AddIfAbsent(list, x) == IF InList(list, x) THEN list ELSE Append(list, x)
RemoveFirst(list, x) ==
    IF ~InList(list, x) THEN list
    ELSE LET i == CHOOSE j \in DOMAIN list :
                      list[j] = x /\ \A k \in 1..(j - 1) : list[k] # x
         IN SubSeq(list, 1, i - 1) \o SubSeq(list, i + 1, Len(list))

\* First pass: one candidate per raw problem, then a stable sort by the
\* consolidated name.
Candidate(item) ==
    [ problem |-> report_consolidate_similar_features(item.key),
      raw |-> item.key, convs |-> item.val ]
InsertSorted(sorted, c) ==
    LET before == SelectSeq(sorted, LAMBDA x : ~StrLess(c.problem, x.problem))
        after == SelectSeq(sorted, LAMBDA x : StrLess(c.problem, x.problem))
    IN before \o <<c>> \o after
RECURSIVE SortByName(_)
SortByName(cands) ==
    IF cands = <<>> THEN <<>>
    ELSE InsertSorted(SortByName(SubSeq(cands, 1, Len(cands) - 1)),
                      cands[Len(cands)])

\* Second pass. `conv not in csv_assignment`
UnassignedAlways(assignment, conv) == TRUE
Unassigned(assignment, conv) == ~DictHas(assignment, conv)
\* conv is put under problem / sub (both `if conv not in ...: append`).
Place(problems, problem, sub, conv) ==
    LET p == DictGet(problems, problem)
    IN DictPut(problems, problem,
           [ conversations |-> AddIfAbsent(p.conversations, conv),
             sub_problems |->
                 DictPut(p.sub_problems, sub,
                         AddIfAbsent(DictGet(p.sub_problems, sub), conv)) ])
\* conv is taken from problem / sub (both `if conv in ...: remove`).
Unplace(problems, problem, sub, conv) ==
    LET p == DictGet(problems, problem)
    IN DictPut(problems, problem,
           [ conversations |-> RemoveFirst(p.conversations, conv),
             sub_problems |->
                 DictPut(p.sub_problems, sub,
                         RemoveFirst(DictGet(p.sub_problems, sub), conv)) ])
\* The body of `for conv in conversations` (lines 795-830); st holds the
\* problems dict and csv_assignment.
AssignConv(st, cand, conv) ==
    IF Unassigned(st.assignment, conv)
        THEN [ problems |-> Place(st.problems, cand.problem, cand.raw, conv),
               assignment |->
                   DictPut(st.assignment, conv,
                           [problem |-> cand.problem, sub |-> cand.raw]) ]
    ELSE LET cur == DictGet(st.assignment, conv)
         IN IF StrLess(cand.problem, cur.problem)
                THEN [ problems |->
                           Place(Unplace(st.problems, cur.problem, cur.sub, conv),
                                 cand.problem, cand.raw, conv),
                       assignment |->
                           DictPut(st.assignment, conv,
                                   [problem |-> cand.problem, sub |-> cand.raw]) ]
                ELSE st
RECURSIVE AssignConvs(_, _, _)
AssignConvs(st, cand, convs) ==
    IF convs = <<>> THEN st
    ELSE AssignConvs(AssignConv(st, cand, Head(convs)), cand, Tail(convs))
\* The body of the loop over the candidates (lines 783-830): the problem and
\* the sub-problem are created when missing, then the conversations assigned.
EnsureProblem(problems, problem) ==
    IF DictHas(problems, problem) THEN problems
    ELSE DictPut(problems, problem,
                 [conversations |-> <<>>, sub_problems |-> <<>>])
EnsureSub(problems, problem, sub) ==
    LET p == DictGet(problems, problem)
    IN IF DictHas(p.sub_problems, sub) THEN problems
       ELSE DictPut(problems, problem,
                [p EXCEPT !.sub_problems = DictPut(@, sub, <<>>)])
AssignCandidate(st, cand) ==
    AssignConvs(
        [st EXCEPT !.problems =
            EnsureSub(EnsureProblem(@, cand.problem), cand.problem, cand.raw)],
        cand, cand.convs)
RECURSIVE AssignAll(_, _)
AssignAll(st, cands) ==
    IF cands = <<>> THEN st
    ELSE AssignAll(AssignCandidate(st, Head(cands)), Tail(cands))

\* Third pass: the sub-problems of a problem that has more than one are
\* regrouped under their broad categories.
\* `consolidated_sub_problems[broad_category].extend(sub_convs)`
ExtendReplace(list, sub_convs) == sub_convs
Extend(list, sub_convs) == list \o sub_convs
RECURSIVE Regroup(_, _)
Regroup(grouped, subs) ==
    IF subs = <<>> THEN grouped
    ELSE LET broad == create_broad_sub_category(Head(subs).key)
             g == IF DictHas(grouped, broad) THEN grouped
                  ELSE DictPut(grouped, broad, <<>>)
         IN Regroup(DictPut(g, broad, Extend(DictGet(g, broad), Head(subs).val)),
                    Tail(subs))
Broaden(problems) ==
    [ i \in DOMAIN problems |->
        IF Len(problems[i].val.sub_problems) > 1
            THEN Item(problems[i].key,
                      [problems[i].val EXCEPT !.sub_problems = Regroup(<<>>, @)])
            ELSE problems[i] ]

\* The clean-up: problems with no conversation are deleted, and the empty
\* sub-problems of the others.
NonEmptySubs(problem_data) ==
    [problem_data EXCEPT
        !.sub_problems = SelectSeq(@, LAMBDA it : it.val # <<>>)]
CleanUp(problems) ==
    LET kept == SelectSeq(problems, LAMBDA it : it.val.conversations # <<>>)
    IN [i \in DOMAIN kept |-> Item(kept[i].key, NonEmptySubs(kept[i].val))]

\* The capabilities: the conversations not in csv_assignment, for the
\* capabilities that keep one.
NotClaimedAny(assignment, conv) == TRUE
NotClaimed(assignment, conv) == ~DictHas(assignment, conv)
RECURSIVE Capabilities(_, _, _)
Capabilities(result, items, assignment) ==
    IF items = <<>> THEN result
    ELSE LET unassigned_convs ==
                 SelectSeq(Head(items).val,
                           LAMBDA conv : NotClaimed(assignment, conv))
         IN Capabilities(
                IF unassigned_convs # <<>>
                    THEN DictPut(result, Head(items).key, unassigned_convs)
                    ELSE result,
                Tail(items), assignment)

\* The steps of create_consolidated_mapping.
EmptyMapping == [problems |-> <<>>, successful_capabilities |-> <<>>]
CollectCandidates ==
    /\ map_pc = "start"
    /\ "problems" \in DOMAIN raw_mapping
    /\ problem_candidates' =
           SortByName([i \in DOMAIN raw_mapping["problems"] |->
                          Candidate(raw_mapping["problems"][i])])
    /\ map_pc' = "candidates"
    /\ UNCHANGED <<raw_mapping, csv_assignment, consolidated_mapping,
                   limiterVars, clock, threadVars, histVars, runVars, aggVars,
                   labelVars>>
AssignConversations ==
    /\ map_pc = "candidates"
    /\ LET st == AssignAll([problems |-> consolidated_mapping.problems,
                            assignment |-> csv_assignment],
                           problem_candidates)
       IN /\ consolidated_mapping' =
                 [consolidated_mapping EXCEPT !.problems = st.problems]
          /\ csv_assignment' = st.assignment
    /\ map_pc' = "assigned"
    /\ UNCHANGED <<raw_mapping, problem_candidates,
                   limiterVars, clock, threadVars, histVars, runVars, aggVars,
                   labelVars>>
BroadenSubProblems ==
    /\ map_pc = "assigned"
    /\ consolidated_mapping' =
           [consolidated_mapping EXCEPT !.problems = Broaden(@)]
    /\ map_pc' = "broadened"
    /\ UNCHANGED <<raw_mapping, problem_candidates, csv_assignment,
                   limiterVars, clock, threadVars, histVars, runVars, aggVars,
                   labelVars>>
RemoveEmpty ==
    /\ map_pc = "broadened"
    /\ consolidated_mapping' =
           [consolidated_mapping EXCEPT !.problems = CleanUp(@)]
    /\ map_pc' = "cleaned"
    /\ UNCHANGED <<raw_mapping, problem_candidates, csv_assignment,
                   limiterVars, clock, threadVars, histVars, runVars, aggVars,
                   labelVars>>
FilterCapabilities ==
    /\ \/ map_pc = "cleaned"
       \/ map_pc = "start" /\ "problems" \notin DOMAIN raw_mapping
    /\ consolidated_mapping' =
           [consolidated_mapping EXCEPT !.successful_capabilities =
               IF "successful_capabilities" \in DOMAIN raw_mapping
                   THEN Capabilities(<<>>, raw_mapping["successful_capabilities"],
                                     csv_assignment)
                   ELSE @]
    /\ map_pc' = "done"
    /\ UNCHANGED <<raw_mapping, problem_candidates, csv_assignment,
                   limiterVars, clock, threadVars, histVars, runVars, aggVars,
                   labelVars>>

\* The report is not being built.
MapIdle ==
    /\ raw_mapping = [problems |-> <<>>, successful_capabilities |-> <<>>]
    /\ problem_candidates = <<>>
    /\ csv_assignment = <<>>
    /\ consolidated_mapping = EmptyMapping
    /\ map_pc = "idle"

\* ------------------------------------------- consolidate_similar_features
\* A label is given to consolidate_similar_features of analyze_chats.py (as
\* main does with missing_feature), or to the function's result of before.
LastLabel == IF canonical = <<>> THEN raw_label ELSE canonical[Len(canonical)]
Consolidate ==
    /\ label_src = "analyze_chats"
    /\ Len(canonical) < MaxApplications
    /\ canonical' = Append(canonical, consolidate_similar_features(LastLabel))
    /\ UNCHANGED <<limiterVars, clock, threadVars, histVars, runVars, aggVars,
                   mapVars, raw_label, label_src>>
\* The same for consolidate_similar_features of generate_executive_report.py
\* (as create_consolidated_mapping does with a raw problem label).
ReportConsolidate ==
    /\ label_src = "generate_executive_report"
    /\ Len(canonical) < MaxApplications
    /\ canonical' =
           Append(canonical, report_consolidate_similar_features(LastLabel))
    /\ UNCHANGED <<limiterVars, clock, threadVars, histVars, runVars, aggVars,
                   mapVars, raw_label, label_src>>
\* No label is being consolidated.
LabelIdle ==
    /\ raw_label = <<>>
    /\ label_src = "none"
    /\ canonical = <<>>

\* ---------------------------------------------- callers of the limiter alone

\* A thread calls rate_limiter.wait_if_needed(): its first call, or the next
\* one after the previous call has returned.
Call(t) ==
    /\ pc[t] \in {"idle", "returned"}
    /\ calls[t] < MaxCalls
    /\ calls' = [calls EXCEPT ![t] = @ + 1]
    /\ pc' = [pc EXCEPT ![t] = "want_lock"]
    /\ UNCHANGED <<limiterVars, clock, wake_at, returns, mainVars>>

MainIdle ==
    /\ dry_run = FALSE
    /\ per_chat = <<>>
    /\ errs = 0
    /\ completed = 0
    /\ seq_i = 1
    /\ collected = {}
    /\ crashed = FALSE
    /\ content = [f \in Files |-> NotRead]
    /\ llm = [f \in Files |-> NoOutcome]
    /\ future = [f \in Files |-> NotDone]
    /\ origin = <<>>
    /\ acqs = [f \in Threads |-> 0]
    /\ reqs = [f \in Threads |-> 0]
    /\ rows = <<>>
    /\ counters = NoCounters
    /\ agg = "start"
    /\ MapIdle
    /\ LabelIdle

InitLimiter ==
    /\ clock = 0
    /\ \E m \in 1..MaxRate : LimiterInit(m)
    /\ pc = [t \in Threads |-> "idle"]
    /\ wake_at = [t \in Threads |-> 0]
    /\ calls = [t \in Threads |-> 0]
    /\ returns = <<>>
    /\ MainIdle

NextLimiter ==
    \/ \E t \in Threads : Call(t)
    \/ \E t \in Threads : LockAcquire(t)
    \/ \E t \in Threads : CheckWindow(t)
    \/ \E t \in Threads : Wake(t)
    \/ \E t \in Threads : Increment(t)
    \/ Tick(TickStep, MaxTicks)

SpecLimiter == InitLimiter /\ [][NextLimiter]_vars

\* The same callers when the clock advances, a sleep ends, a thread inside
\* the with block goes on, and the lock is granted fairly: a thread that
\* waits for the lock gets it if the lock is free again and again.
LimiterFairness ==
    /\ WF_vars(Tick(TickStep, MaxTicks))
    /\ \A t \in Threads :
          /\ SF_vars(LockAcquire(t))
          /\ WF_vars(CheckWindow(t))
          /\ WF_vars(Wake(t))
          /\ WF_vars(Increment(t))
SpecLimiterFair == SpecLimiter /\ LimiterFairness

\* ------------------------------------------------------------ a run of main
Init ==
    /\ clock = 0
    /\ LimiterInit(RunRate)
    /\ pc = [t \in Threads |-> IF t \in Files THEN "pending" ELSE "idle"]
    /\ wake_at = [t \in Threads |-> 0]
    /\ calls = [t \in Threads |-> 0]
    /\ returns = <<>>
    /\ dry_run \in BOOLEAN
    /\ per_chat = <<>>
    /\ errs = 0
    /\ completed = 0
    /\ seq_i = 1
    /\ collected = {}
    /\ crashed = FALSE
    /\ content = [f \in Files |-> NotRead]
    /\ llm = [f \in Files |-> NoOutcome]
    /\ future = [f \in Files |-> NotDone]
    /\ origin = <<>>
    /\ acqs = [f \in Threads |-> 0]
    /\ reqs = [f \in Threads |-> 0]
    /\ rows = <<>>
    /\ counters = NoCounters
    /\ agg = "start"
    /\ MapIdle
    /\ LabelIdle

Next ==
    \/ SeqStep
    \/ \E f \in Files : StartTask(f)
    \/ \E f \in Files : LockAcquire(f)
    \/ \E f \in Files : CheckWindow(f)
    \/ \E f \in Files : Wake(f)
    \/ \E f \in Files : Increment(f)
    \/ \E f \in Files : SendRequest(f)
    \/ \E f \in Files : Collect(f)
    \/ Tick(Window, RunTicks)

Spec == Init /\ [][Next]_vars

\* --------------------------------------------------- the aggregation alone
\* Records the aggregation can be given: a response that follows the schema,
\* the incomplete-conversation stub (a solved record), the processing-error
\* record (ten fields absent), a record with its file alone, a response with
\* nulls where the program has a default, and responses with a null where
\* the counting loop or the row loop iterates.
ObjNulls ==
    [ObjOK EXCEPT !.topics = Null, !.failure_category = Null,
                  !.specific_improvement_needed = Null, !.user_emotion = Null,
                  !.capabilities = Null]
ObjReasonsNull == [ObjOK EXCEPT !.why_unsolved = Null]
ObjPatternsNull == [ObjOK EXCEPT !.success_patterns = Null, !.solved = B(TRUE)]
AggRecords ==
    { Merge("a.csv", ObjOK),
      IncompleteStub("b.csv"),
      ProcessingErrorRecord("c.csv", "TypeError"),
      [file |-> S("d.csv")],
      Merge("b.csv", ObjNulls),
      Merge("c.csv", ObjReasonsNull),
      Merge("d.csv", ObjPatternsNull) }
RecordLists == UNION { [1..n -> AggRecords] : n \in 0..MaxRecords }

InitAggregate ==
    /\ clock = 0
    /\ LimiterInit(RunRate)
    /\ pc = [t \in Threads |-> IF t \in Files THEN "done" ELSE "idle"]
    /\ wake_at = [t \in Threads |-> 0]
    /\ calls = [t \in Threads |-> 0]
    /\ returns = <<>>
    /\ dry_run = FALSE
    /\ per_chat \in RecordLists
    /\ errs = 0
    /\ completed = NumFiles
    /\ seq_i = 1
    /\ collected = Files
    /\ crashed = FALSE
    /\ content = [f \in Files |-> NotRead]
    /\ llm = [f \in Files |-> NoOutcome]
    /\ future = [f \in Files |-> NotDone]
    /\ origin = <<>>
    /\ acqs = [f \in Threads |-> 0]
    /\ reqs = [f \in Threads |-> 0]
    /\ rows = <<>>
    /\ counters = NoCounters
    /\ agg = "start"
    /\ MapIdle
    /\ LabelIdle

NextAggregate == FlattenRows \/ BuildCounters

SpecAggregate == InitAggregate /\ [][NextAggregate]_vars

\* -------------------------------------- create_consolidated_mapping alone
\* Raw problem labels: two that consolidate to account-access-verification
\* and one that consolidates to ad-campaign-management.
LabelSet ==
    { <<"l","o","g","i","n">>, <<"p","a","s","s","w","o","r","d">>,
      <<"p","i","x","e","l">> }
\* The conversation lists of a label or a capability.
ConvLists ==
    { <<>>, <<"a.csv">>, <<"b.csv">>, <<"a.csv", "b.csv">>,
      <<"b.csv", "a.csv">>, <<"a.csv", "a.csv">> }
\* The dicts raw_mapping['problems'] can be: up to MaxLabels labels, each
\* once, in any order.
ProblemDicts ==
    UNION { { d \in [1..n -> {Item(l, c) : l \in LabelSet, c \in ConvLists}] :
                \A i, j \in 1..n : d[i].key = d[j].key => i = j } :
            n \in 0..MaxLabels }
CapabilityDicts == { <<>> } \cup { <<Item("greeting", c)>> : c \in ConvLists }
RawMappings ==
    { [problems |-> d, successful_capabilities |-> c] :
          d \in ProblemDicts, c \in CapabilityDicts }
    \cup { [successful_capabilities |-> c] : c \in CapabilityDicts }
    \cup { [problems |-> d] : d \in ProblemDicts }

InitMapping ==
    /\ clock = 0
    /\ LimiterInit(RunRate)
    /\ pc = [t \in Threads |-> IF t \in Files THEN "done" ELSE "idle"]
    /\ wake_at = [t \in Threads |-> 0]
    /\ calls = [t \in Threads |-> 0]
    /\ returns = <<>>
    /\ dry_run = FALSE
    /\ per_chat = <<>>
    /\ errs = 0
    /\ completed = NumFiles
    /\ seq_i = 1
    /\ collected = Files
    /\ crashed = FALSE
    /\ content = [f \in Files |-> NotRead]
    /\ llm = [f \in Files |-> NoOutcome]
    /\ future = [f \in Files |-> NotDone]
    /\ origin = <<>>
    /\ acqs = [f \in Threads |-> 0]
    /\ reqs = [f \in Threads |-> 0]
    /\ rows = <<>>
    /\ counters = NoCounters
    /\ agg = "counted"
    /\ raw_mapping \in RawMappings
    /\ problem_candidates = <<>>
    /\ csv_assignment = <<>>
    /\ consolidated_mapping = EmptyMapping
    /\ map_pc = "start"
    /\ LabelIdle

NextMapping ==
    \/ CollectCandidates
    \/ AssignConversations
    \/ BroadenSubProblems
    \/ RemoveEmpty
    \/ FilterCapabilities

SpecMapping == InitMapping /\ [][NextMapping]_vars

\* ------------------------------------------------- label canonicalization
\* The bucket names of a function.
BucketNames(buckets) == {buckets[i].name : i \in DOMAIN buckets}
\* The labels given to the functions: free-text labels, and every bucket
\* name of either function.
RawLabels ==
    { <<"a","p","i">>,
      <<"d","a","t","a","b","a","s","e">>,
      <<"i","n","t","e","g","r","a","t","i","o","n">>,
      <<"A","P","I"," ","c","a","n","c","e","l">>,
      <<"i","n","v","o","i","c","e">>,
      <<"r","e","f","u","n","d">>,
      <<"D","a","t","a","b","a","s","e"," ","e","x","p","o","r","t">>,
      <<"c","r","m"," ","i","n","t","e","g","r","a","t","i","o","n">>,
      <<"s","p","e","e","d">>,
      <<"h","e","l","p">> }
    \cup LabelSet
    \cup BucketNames(FeatureBuckets) \cup BucketNames(ProblemBuckets)
    \cup {OtherSpecificFeatures}
InitLabels ==
    /\ clock = 0
    /\ LimiterInit(RunRate)
    /\ pc = [t \in Threads |-> "idle"]
    /\ wake_at = [t \in Threads |-> 0]
    /\ calls = [t \in Threads |-> 0]
    /\ returns = <<>>
    /\ dry_run = FALSE
    /\ per_chat = <<>>
    /\ errs = 0
    /\ completed = 0
    /\ seq_i = 1
    /\ collected = {}
    /\ crashed = FALSE
    /\ content = [f \in Files |-> NotRead]
    /\ llm = [f \in Files |-> NoOutcome]
    /\ future = [f \in Files |-> NotDone]
    /\ origin = <<>>
    /\ acqs = [f \in Threads |-> 0]
    /\ reqs = [f \in Threads |-> 0]
    /\ rows = <<>>
    /\ counters = NoCounters
    /\ agg = "start"
    /\ MapIdle
    /\ raw_label \in RawLabels
    /\ label_src \in {"analyze_chats", "generate_executive_report"}
    /\ canonical = <<>>
NextLabels == Consolidate \/ ReportConsolidate
SpecLabels == InitLabels /\ [][NextLabels]_vars

\* ================================================================== claims

\* The number of calls of wait_if_needed that returned in (clock - 60, clock].
RollingCount ==
    Cardinality({i \in DOMAIN returns : returns[i] > clock - Window})

\* C1: with max_requests >= 1 and any interleaving of callers, the counter of
\* the current window stays within 0..max_requests in every reachable state.
C1_CountWithinLimit ==
    /\ 0 <= request_count
    /\ request_count <= max_requests
\* A window that began by a reset is full, and a caller sleeps at the limit.
C1_Witness ==
    /\ request_count = max_requests
    /\ minute_start >= Window
    /\ \E t \in Threads : pc[t] = "sleeping"

\* C2 as stated: in every interval (t - 60, t] at most max_requests calls of
\* wait_if_needed return.
C2_RollingWindow == RollingCount <= max_requests
\* C2 as amended: the limit holds per fixed window, so an interval
\* (t - 60, t], which meets at most two windows, sees at most
\* 2 * max_requests returns.
C2_TwoWindows == RollingCount <= 2 * max_requests
\* A burst across a window boundary: two full windows within 60 seconds.
C2_Witness == RollingCount = 2 * max_requests

\* C3: the counter and the window start are read and written by the holder
\* of the lock only, one thread at a time is between acquiring and releasing
\* it, and while a thread sleeps at the limit no other thread is granted a
\* slot or changes the counter or the window start.
C3_Mutex == \A t \in Threads : pc[t] \in InCS => lock = t
C3_Step ==
    /\ (request_count' # request_count \/ minute_start' # minute_start)
          => /\ lock # NoThread
             /\ pc[lock] \in InCS
             /\ pc'[lock] # pc[lock]
    /\ \A t \in Threads :
          (pc[t] = "sleeping" /\ pc'[t] = "sleeping")
             => /\ request_count' = request_count
                /\ minute_start' = minute_start
                /\ \A u \in Threads : pc'[u] = "returned" => pc[u] = "returned"
C3_CriticalSection == [](C3_Mutex) /\ [][C3_Step]_vars
\* A thread sleeps at the limit while another waits for the lock.
C3_Witness ==
    \E t, u \in Threads : pc[t] = "sleeping" /\ pc[u] = "want_lock"

\* The entries of per_chat appended for file f.
RecordsOf(f) == {i \in DOMAIN origin : origin[i] = f}

\* C4: when main has run its loop over the files, per_chat holds exactly one
\* record per input file.
C4_OneRecordPerFile ==
    Finished => /\ Len(per_chat) = NumFiles
                /\ \A f \in Files : Cardinality(RecordsOf(f)) = 1

\* A file whose transcript is filtered before the LLM: empty or incomplete.
FilteredBeforeLLM(c) ==
    /\ c.kind = "transcript"
    /\ IsBlank(c.lines) \/ is_incomplete_conversation(c.lines)

\* C5: the record list holds at most one record per file, and none for a
\* file filtered before the LLM.
C5_FilteredDropped ==
    /\ Len(per_chat) <= NumFiles
    /\ \A i \in DOMAIN per_chat : ~FilteredBeforeLLM(content[origin[i]])

\* C6: an exception raised in the try block of the parallel loop is caught
\* and counted as one error, and the loop goes on: every other done task can
\* still be collected, and at the end every task's result is in per_chat.
C6_Step ==
    \A f \in Files :
        (f \notin collected /\ f \in collected' /\ TryRaises(future[f]))
            => errs' = errs + 1 /\ ~crashed'
C6_LoopGoesOn ==
    /\ ~crashed
    /\ \A g \in Files :
          (~dry_run /\ pc[g] = "done" /\ g \notin collected)
             => ENABLED Collect(g)
    /\ (Finished /\ ~dry_run) =>
          \A g \in Files :
              future[g].state = "returned" =>
                  \E i \in RecordsOf(g) : per_chat[i] = future[g].result
C6_FailureIsolation == [](C6_LoopGoesOn) /\ [][C6_Step]_vars
\* The try block raised for one file, and another file was collected later.
C6_Witness ==
    \E i, j \in DOMAIN origin :
        /\ i < j
        /\ origin[i] # origin[j]
        /\ TryRaises(future[origin[i]])
        /\ errs >= 1

\* The exception class a why_unsolved text names.
ClassNameIn(text) ==
    CASE text = "exception: Timeout" -> "Timeout"
      [] text = "exception: ConnectionError" -> "ConnectionError"
      [] text = "exception: HTTPError" -> "HTTPError"
      [] text = "exception: JSONDecodeError" -> "JSONDecodeError"
      [] text = "exception: TypeError" -> "TypeError"
      [] OTHER -> "no class name"

\* C7: when the LLM call or the parsing of its content raises, the task
\* returns (it does not raise) the fallback record: topics ["parse-error"],
\* solved false, the exception's class name in why_unsolved.
C7_FallbackOnException ==
    \A f \in Files :
        /\ pc[f] = "done" => future[f].state = "returned"
        /\ (llm[f] # NoOutcome /\ RaisedBy(llm[f]) # "none") =>
              /\ future[f].state = "returned"
              /\ future[f].result.topics = L(<<S("parse-error")>>)
              /\ future[f].result.solved = B(FALSE)
              /\ \E i \in DOMAIN future[f].result.why_unsolved.items :
                    ClassNameIn(future[f].result.why_unsolved.items[i].s)
                        = RaisedBy(llm[f])
\* An LLM call timed out and the task's result was collected.
C7_Witness ==
    \E f \in Files : llm[f] = Raise("Timeout") /\ f \in collected

\* The schema of a response: exactly the keys of the prompt, typed as there.
ListFields ==
    { "topics", "user_tasks_attempted", "why_unsolved", "capabilities",
      "limitations", "examples", "success_patterns", "demonstrated_skills",
      "user_satisfaction_indicators", "conversation_flow",
      "escalation_triggers", "error_patterns" }
BoolFields == { "solved", "needs_human" }
NumFields == { "feature_priority_score" }
SchemaType(k) ==
    IF k \in ListFields THEN "list"
    ELSE IF k \in BoolFields THEN "bool"
    ELSE IF k \in NumFields THEN "num"
    ELSE "str"
FollowsSchema(o) ==
    /\ DOMAIN o = SchemaFields
    /\ \A k \in SchemaFields : o[k].kind = SchemaType(k)
\* The response of file f is a JSON object that breaks the schema.
SchemaViolation(f) ==
    /\ llm[f].kind = "content"
    /\ IsJson(llm[f].text)
    /\ JsonLoads(llm[f].text).kind = "obj"
    /\ ~FollowsSchema(JsonLoads(llm[f].text).o)

\* C8: a response that is a JSON object breaking the schema gives the
\* parse-error fallback record.
C8_SchemaErrorFallback ==
    \A f \in Files :
        (SchemaViolation(f) /\ future[f].state = "returned")
            => Get(future[f].result, "topics", Null) = L(<<S("parse-error")>>)

\* The fields of a ConversationRecord: file, those of the schema, and the
\* two tags added for downstream filtering.
RecordFields ==
    {"file"} \cup SchemaFields \cup {"conversation_quality", "filtered_reason"}

\* C9: every record in per_chat has every field, and none is null.
C9_AllFieldsPopulated ==
    \A i \in DOMAIN per_chat :
        \A k \in RecordFields :
            k \in DOMAIN per_chat[i] /\ per_chat[i][k] # Null

\* A transcript that passes the empty and incomplete checks with at most 2
\* user lines.
FewUserLines(c) ==
    /\ c.kind = "transcript"
    /\ ~IsBlank(c.lines)
    /\ ~is_incomplete_conversation(c.lines)
    /\ Cardinality(UserLines(c.lines)) <= 2

\* C10: a file with at most 2 user lines never enters wait_if_needed, has no
\* request sent, and its record is tagged conversation_quality "low-value".
C10_LowValueSkipsLLM ==
    \A f \in Files :
        FewUserLines(content[f]) =>
            /\ pc[f] \notin InWaitIfNeeded
            /\ acqs[f] = 0
            /\ reqs[f] = 0
            /\ future[f].state = "returned" =>
                  Get(future[f].result, "conversation_quality", Null)
                      = S("low-value")

\* A transcript none of whose lines has the speaker tag "user".
NoUserSpeaker(lines) ==
    \A i \in DOMAIN lines : lines[i].spk # <<"u","s","e","r">>
\* The task of file f returned the incomplete-conversation stub and made no
\* LLM call.
ClassifiedIncomplete(f) ==
    /\ future[f] = Returned(IncompleteStub(Basename(Path(f))))
    /\ acqs[f] = 0
    /\ reqs[f] = 0

\* C11: a non-empty transcript is classified incomplete-conversation (stub
\* returned, no LLM call) exactly when none of its lines has the speaker
\* "user", whatever the messages of the other speakers quote.
C11_IncompleteIffNoUserSpeaker ==
    \A f \in Files :
        (content[f].kind = "transcript" /\ ~IsBlank(content[f].lines)
            /\ pc[f] = "done")
          => (ClassifiedIncomplete(f) <=> NoUserSpeaker(content[f].lines))

\* C12: in a dry run no file, whatever its transcript, enters wait_if_needed
\* or has a request sent: the per-file acquisition and request counts and
\* the limiter's request_count keep their initial value 0.
C12_DryRunNoLLM ==
    dry_run =>
        /\ request_count = 0
        /\ \A f \in Files :
              /\ pc[f] \notin InWaitIfNeeded
              /\ acqs[f] = 0
              /\ reqs[f] = 0
              /\ llm[f] = NoOutcome
\* A dry run has processed a conversation with user lines, which a run that
\* is not a dry run sends to the LLM.
C12_Witness ==
    /\ dry_run
    /\ \E f \in Files :
          /\ pc[f] = "done"
          /\ content[f].kind = "transcript"
          /\ ReachesLLM(content[f], FALSE)
          /\ future[f].result = DryRunStub(Basename(Path(f)))

\* The list the sequential loop builds from the per-file results: one
\* `per_chat.append(result)` per file, in file order.
SeqLoop(results) == [i \in 1..NumFiles |-> results[i]]
\* Two lists hold the same records the same number of times.
Count(list, x) == Cardinality({i \in DOMAIN list : list[i] = x})
SameMultiset(s, t) ==
    /\ Len(s) = Len(t)
    /\ \A i \in DOMAIN s : Count(s, s[i]) = Count(t, s[i])

Perms(n) == {p \in [1..n -> 1..n] : \A i, j \in 1..n : p[i] = p[j] => i = j}
Permuted(list, p) == [i \in DOMAIN list |-> list[p[i]]]

\* C14: the counters of main are order-independent: counting any permutation
\* of the record list gives, for every counter, the same keys with the same
\* counts.
C14_CountersOrderIndependent ==
    agg = "counted" =>
        \A p \in Perms(Len(per_chat)) :
            CountAll(NoCounters, Permuted(per_chat, p)) = counters
\* Three different records were counted, two of which share a topic.
C14_Witness ==
    /\ agg = "counted"
    /\ Len(per_chat) = 3
    /\ per_chat[1] # per_chat[2]
    /\ per_chat[2] # per_chat[3]
    /\ per_chat[1] # per_chat[3]
    /\ \E k \in DOMAIN counters.topic_counts : counters.topic_counts[k] >= 2
    /\ counters.topic_solved # EmptyCounter

\* C15: the aggregation never raises on records that have a file and in
\* which any other field may be absent or null: the rows and the counters
\* are built, with the default in the place of a missing value.
C15_AggregationNeverRaises ==
    /\ agg # "TypeError"
    /\ agg \in {"rows", "counted"} =>
          \A i \in DOMAIN per_chat :
              Get(per_chat[i], "failure_category", Null) = Null
                  => rows[i].failure_category = "unknown"

\* The problems dict built so far, the raw problems, and the file
\* identifiers of the model.
Problems == consolidated_mapping.problems
RawProblems ==
    IF "problems" \in DOMAIN raw_mapping THEN raw_mapping["problems"] ELSE <<>>
Convs == {"a.csv", "b.csv"}
\* How many times conv stands in the conversations lists of the problems.
RECURSIVE Placements(_, _)
Placements(problems, conv) ==
    IF problems = <<>> THEN 0
    ELSE Count(Head(problems).val.conversations, conv)
             + Placements(Tail(problems), conv)
\* The canonical categories of the raw labels that list conv, and the
\* smallest of a set of names.
CategoriesOf(conv) ==
    { report_consolidate_similar_features(RawProblems[i].key) :
          i \in {j \in DOMAIN RawProblems : InList(RawProblems[j].val, conv)} }
Smallest(names) == CHOOSE n \in names : \A m \in names : ~StrLess(m, n)

\* C16: after create_consolidated_mapping each file identifier is in the
\* conversations list of at most one problem category, once; a file listed
\* under some raw label is under the smallest of its canonical categories.
C16_OneCategoryPerFile ==
    map_pc = "done" =>
        \A conv \in Convs :
            /\ Placements(Problems, conv) <= 1
            /\ CategoriesOf(conv) # {} =>
                  \E i \in DOMAIN Problems :
                      /\ Problems[i].key = Smallest(CategoriesOf(conv))
                      /\ InList(Problems[i].val.conversations, conv)
\* A file is listed under two raw labels of different categories, the one
\* with the larger category name first in the raw mapping.
C16_Witness ==
    /\ map_pc = "done"
    /\ \E conv \in Convs : \E i, j \in DOMAIN RawProblems :
          /\ i < j
          /\ InList(RawProblems[i].val, conv)
          /\ InList(RawProblems[j].val, conv)
          /\ StrLess(report_consolidate_similar_features(RawProblems[j].key),
                     report_consolidate_similar_features(RawProblems[i].key))

\* The sub-problem lists of a problem, one after the other.
RECURSIVE Flat(_)
Flat(subs) == IF subs = <<>> THEN <<>> ELSE Head(subs).val \o Flat(Tail(subs))

\* C17: after create_consolidated_mapping, for every problem category left,
\* the sub-problem lists hold together as many files as the conversations
\* list, no file twice, and the same files.
C17_SubProblemsPartition ==
    map_pc = "done" =>
        \A i \in DOMAIN Problems :
            LET all_convs == Flat(Problems[i].val.sub_problems)
                main_convs == Problems[i].val.conversations
            IN /\ Len(all_convs) = Len(main_convs)
               /\ \A j, k \in DOMAIN all_convs :
                      all_convs[j] = all_convs[k] => j = k
               /\ {all_convs[j] : j \in DOMAIN all_convs}
                      = {main_convs[j] : j \in DOMAIN main_convs}
\* Two raw sub-problems of one category were merged into one broad
\* sub-problem that holds a file of each.
C17_Witness ==
    /\ map_pc = "done"
    /\ \E i \in DOMAIN Problems :
          /\ Len(Problems[i].val.sub_problems) = 1
          /\ Len(Problems[i].val.sub_problems[1].val) = 2
          /\ DictGet(csv_assignment, "a.csv").sub
                 # DictGet(csv_assignment, "b.csv").sub
          /\ DictGet(csv_assignment, "a.csv").problem = Problems[i].key
          /\ DictGet(csv_assignment, "b.csv").problem = Problems[i].key

\* C18: after create_consolidated_mapping no file of a capability list is in
\* a problem's conversations, nor is it listed under any raw problem label.
C18_CapabilitiesDisjoint ==
    map_pc = "done" =>
        \A c \in DOMAIN consolidated_mapping.successful_capabilities :
            LET kept == consolidated_mapping.successful_capabilities[c].val
            IN \A j \in DOMAIN kept :
                  /\ \A i \in DOMAIN Problems :
                        ~InList(Problems[i].val.conversations, kept[j])
                  /\ CategoriesOf(kept[j]) = {}
\* A capability lost one of its two files to a problem and kept the other.
C18_Witness ==
    /\ map_pc = "done"
    /\ "successful_capabilities" \in DOMAIN raw_mapping
    /\ \E c \in DOMAIN consolidated_mapping.successful_capabilities :
          /\ Len(consolidated_mapping.successful_capabilities[c].val) = 1
          /\ Len(raw_mapping["successful_capabilities"][1].val) = 2
          /\ raw_mapping["successful_capabilities"][1].val[1]
                 # raw_mapping["successful_capabilities"][1].val[2]

\* C19: file is a unique key of the record list: every record's file is the
\* name of the input file it came from, and the records of two different
\* input files never have the same file value.
C19_FileIsUniqueKey ==
    /\ \A i \in DOMAIN per_chat :
          per_chat[i].file = S(Basename(Path(origin[i])))
    /\ \A i, j \in DOMAIN per_chat :
          origin[i] # origin[j] => per_chat[i].file # per_chat[j].file

\* An error record: topics holds parse-error, file-error or processing-error.
ErrorTags == { "parse-error", "file-error", "processing-error" }
IsErrorRecord(r) ==
    /\ Get(r, "topics", L(<<>>)).kind = "list"
    /\ \E tag \in ErrorTags : Contains(Get(r, "topics", L(<<>>)), tag)
FailedFiles == { f \in Files : \E i \in RecordsOf(f) : IsErrorRecord(per_chat[i]) }

\* C20: when main has run its loop, sequential or parallel, errs is the
\* number of files with an error record, and if some file failed the final
\* summary is the "N files had errors" line with N > 0.
C20_ErrorCountReported ==
    Finished =>
        /\ errs = Cardinality(FailedFiles)
        /\ FailedFiles # {} =>
              /\ FinalSummary(errs).line = "files had errors"
              /\ FinalSummary(errs).count > 0

\* The calls of wait_if_needed that have returned since the limiter was
\* constructed.
RECURSIVE SumTo(_, _)
SumTo(f, n) == IF n = 0 THEN 0 ELSE f[n] + SumTo(f, n - 1)
Acquired == SumTo(acqs, Cardinality(Threads))
\* The limiter is in the window it was constructed in.
FirstWindow == minute_start = 0 /\ clock < Window

\* C21: from a fresh limiter, with every call inside the first window, the
\* first max_requests calls do not sleep and the next one sleeps for 60 minus
\* the time elapsed since the window start; when the sleep ends the window
\* is reset to the time after the sleep with the count at 0, nothing changes
\* them before the sleeper's increment, and it returns with request_count = 1.
C21_Step ==
    \A t \in Threads :
        /\ (FirstWindow /\ pc[t] = "locked" /\ pc'[t] = "incr")
              => Acquired < max_requests
        /\ (FirstWindow /\ pc[t] = "locked" /\ pc'[t] = "sleeping")
              => /\ Acquired = max_requests
                 /\ wake_at'[t] - clock = Window - (clock - minute_start)
        /\ (pc[t] = "sleeping" /\ pc'[t] = "incr")
              => /\ request_count' = 0
                 /\ minute_start' = clock
        /\ (pc[t] = "incr" /\ pc'[t] = "incr")
              => /\ request_count' = request_count
                 /\ minute_start' = minute_start
        /\ (pc[t] = "incr" /\ pc'[t] = "returned" /\ request_count = 0)
              => request_count' = 1
C21_OneSleepAtLimit == [][C21_Step]_vars
\* The call after the limit sleeps in the first window, some time after the
\* window began.
C21_Witness ==
    \E t \in Threads :
        /\ pc[t] = "sleeping"
        /\ minute_start = 0
        /\ Acquired = max_requests
        /\ wake_at[t] = Window
        /\ clock > 0
        /\ clock < Window

\* C22: a call that tests the window 60 seconds or more after minute_start
\* sets request_count to 0 and minute_start to the current time and goes on
\* to the increment without sleeping, whatever the count was; the count is
\* its alone until it returns, one higher.
C22_Step ==
    \A t \in Threads :
        /\ (pc[t] = "locked" /\ pc'[t] # "locked"
                /\ clock - minute_start >= Window)
              => /\ pc'[t] = "incr"
                 /\ request_count' = 0
                 /\ minute_start' = clock
                 /\ wake_at' = wake_at
        /\ (pc[t] = "incr" /\ pc'[t] # "incr")
              => /\ pc'[t] = "returned"
                 /\ request_count' = request_count + 1
                 /\ \A u \in Threads \ {t} : pc'[u] = pc[u]
C22_ResetAfterWindow == [][C22_Step]_vars
\* A call found the window elapsed with one call counted and a limit of two,
\* so no caller has slept yet: the count is back at 0 and the window starts
\* now.
C22_Witness ==
    \E t \in Threads :
        /\ pc[t] = "incr"
        /\ max_requests = 2
        /\ Acquired = 1
        /\ request_count = 0
        /\ minute_start = clock
        /\ clock >= Window

\* A file that leaves process_single_file before classification: it cannot
\* be read, or its transcript is empty or incomplete.
ExitsEarly(c) == c.kind = "unreadable" \/ FilteredBeforeLLM(c)

\* C23: at every point of a run each file's worker has sent at most as many
\* requests as it has acquisitions returned, at most one acquisition is
\* still without its request, and a file that exits before classification
\* neither enters wait_if_needed nor makes an acquisition.
C23_AcquireBeforeRequest ==
    \A f \in Files :
        /\ reqs[f] <= acqs[f]
        /\ acqs[f] <= reqs[f] + 1
        /\ acqs[f] = reqs[f] + 1 <=> pc[f] = "returned"
        /\ ExitsEarly(content[f]) =>
              /\ acqs[f] = 0
              /\ reqs[f] = 0
              /\ pc[f] \notin InWaitIfNeeded
\* One file's request was sent after its acquisition, and another file
\* exited early without one.
C23_Witness ==
    \E f, g \in Files :
        /\ reqs[f] = 1
        /\ acqs[f] = 1
        /\ pc[g] = "done"
        /\ ExitsEarly(content[g])
        /\ acqs[g] = 0

\* C24: in one run each file has at most one request sent, and a file whose
\* request or whose response's parsing raised is done after that one request,
\* its task's result the fallback record.
C24_NoRetry ==
    \A f \in Files :
        /\ reqs[f] <= 1
        /\ (llm[f] # NoOutcome /\ RaisedBy(llm[f]) # "none") =>
              /\ reqs[f] = 1
              /\ pc[f] = "done"
              /\ future[f] = Returned(ParseErrorRecord(Basename(Path(f)),
                                                       RaisedBy(llm[f])))
\* A file's request timed out, and its fallback record has been collected.
C24_Witness ==
    \E f \in Files :
        /\ llm[f] = Raise("Timeout")
        /\ reqs[f] = 1
        /\ f \in collected
        /\ \E i \in RecordsOf(f) :
              per_chat[i] = ParseErrorRecord(Basename(Path(f)), "Timeout")

C26_DryRunRecord ==
    \A f \in Files :
        (/\ dry_run
         /\ future[f].state = "returned"
         /\ ReachesLLMAnyMode(content[f], dry_run)) =>
            /\ Get(future[f].result, "filtered_reason", Null) = S("dry-run")
            /\ Get(future[f].result, "why_unsolved", Null)
                   = L(<<S("dry-run-no-llm")>>)

\* C27: no record of per_chat has specific_improvement_needed equal to the
\* bare negative "none".
C27_NeverBareNone ==
    \A i \in DOMAIN per_chat :
        Get(per_chat[i], "specific_improvement_needed", Null) # S("none")

\* The names a function can return for a bucket, and the three terms of C28.
CanonicalNames ==
    IF label_src = "analyze_chats" THEN BucketNames(FeatureBuckets)
    ELSE BucketNames(ProblemBuckets) \cup {OtherSpecificFeatures}
ApiSystemAccess ==
    <<"a","p","i","-","s","y","s","t","e","m","-","a","c","c","e","s","s">>
NamesApiDatabaseIntegration(label) ==
    AnyTermIn({ <<"a","p","i">>, <<"d","a","t","a","b","a","s","e">>,
                <<"i","n","t","e","g","r","a","t","i","o","n">> },
              Lower(label))

\* C28: consolidate_similar_features returns one of its fixed bucket names
\* for every label, and "api-system-access" for a label that contains
\* "api", "database" or "integration".
C28_CanonicalBuckets ==
    canonical # <<>> =>
        /\ canonical[1] \in CanonicalNames
        /\ NamesApiDatabaseIntegration(raw_label) =>
              canonical[1] = ApiSystemAccess

\* C30: consolidate_similar_features gives for its own result that result
\* again.
C30_Idempotent ==
    Len(canonical) >= 2 => canonical[2] = canonical[1]

\* The clock of the model has reached its last value while a sleep is to end
\* later: the sleeper waits for time the model does not have.
ClockExhausted ==
    \E u \in Threads :
        /\ pc[u] = "sleeping"
        /\ clock < wake_at[u]
        /\ clock + TickStep > MaxTicks * TickStep

\* C29: with a clock that advances and a fair lock, every call of
\* wait_if_needed returns, whatever the other callers do; and a caller that
\* sleeps has at most one window length left to sleep.
C29_SleepBounded ==
    \A t \in Threads :
        pc[t] = "sleeping" =>
            /\ wake_at[t] - clock <= Window
            /\ wake_at[t] <= minute_start + Window
C29_EveryCallReturns ==
    /\ [](C29_SleepBounded)
    /\ \A t \in Threads :
          (pc[t] \in InWaitIfNeeded) ~> (pc[t] = "returned" \/ ClockExhausted)
\* A caller sleeps at the limit with time left on the clock, while two
\* other callers wait for the lock.
C29_Witness ==
    \E t, u, v \in Threads :
        /\ u # v
        /\ pc[t] = "sleeping"
        /\ pc[u] = "want_lock"
        /\ pc[v] = "want_lock"
        /\ ~ClockExhausted

====
